---- MODULE Spec2Model ----
(***************************************************************************)
(* Verification model of the PSN welfare registry, back end and browser:   *)
(*   - the IP access gate (IPWhitelist: cache reload, middleware, CIDR),   *)
(*   - the e-mail dispatcher (EmailService) and the reminder batch.        *)
(* The specifications share the variables; each one leaves the other       *)
(* subsystems' variables unchanged.                                        *)
(*   Spec         : the allow-list cache, its reloads, the gate decisions  *)
(*   SpecCidr     : the pure CIDR functions applied to bounded inputs      *)
(*   SpecBulk     : EmailService.sendBulkEmails                            *)
(*   SpecReminder : the reminder batch on the pm2 instances                *)
(*   SpecDispatch : EmailService.sendReminderEmail called pair by pair     *)
(*   SpecSend     : EmailService.sendEmail called directly                 *)
(*   SpecKin      : the dashboard's next-of-kin handlers, the resolver     *)
(*   SpecWs       : WebSocketService connections and reminder broadcasts   *)
(*   SpecBoot     : testConnection / ensureAdminUser on the pm2 instances  *)
(*   SpecDates    : getDaysUntil / updateStats on the dashboard's dates    *)
(*   SpecWindow   : the reminder batch at a "now" drawn from a set         *)
(*   SpecBackup   : BackupService.createBackup / restoreBackup             *)
(*   SpecTwoFactor: TwoFactorService.verifyBackupCode                      *)
(*   SpecApi      : the browser's makeRequest and its 401 interceptor      *)
(*   SpecManager  : the browser's BackupManager and its isProcessing flag  *)
(*   SpecStatus   : BulkActionsManager.updateMemberStatusBulk and cancel   *)
(*   SpecClient   : the browser's WebSocketClient, reconnects, disconnect  *)
(***************************************************************************)
EXTENDS Integers, Sequences, FiniteSets, TLC

VARIABLES
    \* ---- SpecCidr: inputs and results of one evaluation of the CIDR functions
    cidrIp, cidrRange, cidrMask, cidrResult, allowedResult,
    \* ---- SpecGate: table ipWhitelist, the cache, the reloads in flight
    db, whitelist, adminIPs, lastLoaded,
    timerPc, timerSnap,
    opPc, opCall, opSnap, opResult,
    lastReq, opAudited,
    \* ---- SpecBulk: the EmailService and one sendBulkEmails call
    transporter, templates,
    bulkPc, bulkRecipients, bulkTemplate, bulkIdx, bulkResults, bulkCalls, bulkReturn,
    \* ---- SpecReminder: the reminder batch on the pm2 instances
    reminderEnabled, reminderLog, batchPc, batchQueue, attempts, delivered,
    runsStarted, runsFinished, overlapped,
    \* ---- SpecSend: direct calls of EmailService.sendEmail
    sendCalls,
    \* ---- SpecKin: the dashboard's next-of-kin list and the recipient resolver
    apiService, nextOfKin, isEditing, currentEditId, kinNotice, resolved,
    \* ---- SpecWs: the WebSocketService's clients, one room, the last broadcast,
    \*      each user's socket that is not the one held in this.clients
    clients, room, subscribing, broadcast, others,
    \* ---- SpecBoot: table member (the bootstrap account) and testConnection runs
    adminEnv, adminRows, bootPc, bootFound, bootResult, bootFailedAt, bootsStarted,
    \* ---- SpecDates: one special date of the dashboard, the browser's clock
    specialDate, today, tzWest, daysUntil, upcoming,
    \* ---- SpecWindow: the evaluator's "now" and the stored dates
    evalNow, storedDates,
    \* ---- SpecBackup: table backup, the dumps on disk, one create and one restore
    backupRows, dumps, backupsMade, createPc, createId, restorePc, restoreCall, restoreResult,
    \* ---- SpecTwoFactor: table twoFactorBackupCode and the verifyBackupCode calls
    backupCodes, verifyPc, verifyRow, verifyResult, accepted, verifiesStarted,
    \* ---- SpecApi: the browser's stored token and its requests through makeRequest
    token, isRefreshing, requests, requestsMade,
    \* ---- SpecManager: the browser's BackupManager, its flag and its calls
    isProcessing, managerOps, managerCalls,
    \* ---- SpecStatus: BulkActionsManager.updateMemberStatusBulk and its cancel button
    statusProcessing, statusPc, statusIdx, statusTotal, updatesIssued, cancelled,
    issuedAfterCancel, statusRuns,
    \* ---- SpecClient: the browser's WebSocketClient
    clientToken, clientSocket, isConnected, reconnectAttempts, reconnectTimer, userDisconnected,
    reconnected

cidrVars == <<cidrIp, cidrRange, cidrMask, cidrResult, allowedResult>>
gateVars == <<db, whitelist, adminIPs, lastLoaded, timerPc, timerSnap,
              opPc, opCall, opSnap, opResult, lastReq, opAudited>>
mailVars == <<transporter, templates>>
bulkVars == <<bulkPc, bulkRecipients, bulkTemplate, bulkIdx, bulkResults, bulkCalls, bulkReturn>>
remVars == <<reminderEnabled, reminderLog, batchPc, batchQueue, attempts, delivered,
             runsStarted, runsFinished, overlapped>>
sendVars == <<sendCalls>>

\* the subsystems added to the gate, the CIDR functions and the mail batch
kinVars == <<apiService, nextOfKin, isEditing, currentEditId, kinNotice, resolved>>
wsVars == <<clients, room, subscribing, broadcast, others>>
bootVars == <<adminEnv, adminRows, bootPc, bootFound, bootResult, bootFailedAt, bootsStarted>>
dateVars == <<specialDate, today, tzWest, daysUntil, upcoming>>
clockVars == <<evalNow, storedDates>>
backupVars == <<backupRows, dumps, backupsMade, createPc, createId,
                restorePc, restoreCall, restoreResult>>
tfaVars == <<backupCodes, verifyPc, verifyRow, verifyResult, accepted, verifiesStarted>>
apiVars == <<token, isRefreshing, requests, requestsMade>>
managerVars == <<isProcessing, managerOps, managerCalls>>
statusVars == <<statusProcessing, statusPc, statusIdx, statusTotal, updatesIssued, cancelled,
                issuedAfterCancel, statusRuns>>
clientVars == <<clientToken, clientSocket, isConnected, reconnectAttempts, reconnectTimer,
                userDisconnected, reconnected>>
lateVars == <<tfaVars, apiVars, managerVars, statusVars, clientVars>>
extVars == <<sendVars, kinVars, wsVars, bootVars, dateVars, clockVars, backupVars, lateVars>>

vars == <<cidrVars, gateVars, mailVars, bulkVars, remVars, extVars>>

notGate == <<cidrVars, mailVars, bulkVars, remVars, extVars>>
notCidr == <<gateVars, mailVars, bulkVars, remVars, extVars>>
notBulk == <<cidrVars, gateVars, mailVars, remVars, extVars>>
notRem == <<cidrVars, gateVars, mailVars, bulkVars, extVars>>
coreVars == <<cidrVars, gateVars, mailVars, bulkVars, remVars>>
notSend == <<coreVars, kinVars, wsVars, bootVars, dateVars, clockVars, backupVars, lateVars>>
notKin == <<coreVars, sendVars, wsVars, bootVars, dateVars, clockVars, backupVars, lateVars>>
notWs == <<coreVars, sendVars, kinVars, bootVars, dateVars, clockVars, backupVars, lateVars>>
notBoot == <<coreVars, sendVars, kinVars, wsVars, dateVars, clockVars, backupVars, lateVars>>
notDates == <<coreVars, sendVars, kinVars, wsVars, bootVars, clockVars, backupVars, lateVars>>
notBackup == <<coreVars, sendVars, kinVars, wsVars, bootVars, dateVars, clockVars, lateVars>>
earlyVars == <<coreVars, sendVars, kinVars, wsVars, bootVars, dateVars, clockVars, backupVars>>
notTfa == <<earlyVars, apiVars, managerVars, statusVars, clientVars>>
notApi == <<earlyVars, tfaVars, managerVars, statusVars, clientVars>>
notManager == <<earlyVars, tfaVars, apiVars, statusVars, clientVars>>
notStatus == <<earlyVars, tfaVars, apiVars, managerVars, clientVars>>
notClient == <<earlyVars, tfaVars, apiVars, managerVars, statusVars>>

(***************************************************************************)
(* 32-bit words.  JavaScript's <<, & and >>> work on the 32-bit pattern of *)
(* their operands; a word is the pattern, bit 0 the least significant.     *)
(***************************************************************************)
WordBits == 32

Bit == 0..(WordBits - 1)

Pow2(n) == 2 ^ n

\* the pattern of a small non-negative integer (an octet, here)
ToWord(n) == [i \in Bit |-> IF i < 31 THEN (n \div Pow2(i)) % 2 ELSE 0]

\* the pattern of the number -1
MinusOne == [i \in Bit |-> 1]

\* x << n : the count is taken modulo 32, vacated bits are zero
Shl(w, n) == LET k == n % WordBits
             IN  [i \in Bit |-> IF i >= k THEN w[i - k] ELSE 0]

RECURSIVE Carry(_, _, _)
\* carry into bit i of a + b
Carry(a, b, i) == IF i = 0 THEN 0
                  ELSE (a[i - 1] + b[i - 1] + Carry(a, b, i - 1)) \div 2

\* a + b, kept to 32 bits (the sums formed here never leave that range)
AddW(a, b) == [i \in Bit |-> (a[i] + b[i] + Carry(a, b, i)) % 2]

\* a & b
AndW(a, b) == [i \in Bit |-> a[i] * b[i]]

(***************************************************************************)
(* Addresses and allow-list entries.  An entry is the string stored in     *)
(* ipWhitelist.ipAddress: a dotted quad, with "/prefix" when it is a CIDR  *)
(* range.  NoPrefix marks a string without '/'.                            *)
(***************************************************************************)
NoPrefix == -1

Plain(a) == [ip |-> a, prefix |-> NoPrefix]
Cidr(a, n) == [ip |-> a, prefix |-> n]

\* JavaScript values handed to ipToLong: a dotted-quad string or a number
Str(a) == [type |-> "string", octets |-> a]
Num(w) == [type |-> "number", bits |-> w]

Threw == [ok |-> FALSE]
Returned(w) == [ok |-> TRUE, val |-> w]

RECURSIVE reduceOctets(_, _, _)
\* ip.split('.').reduce((acc, octet) => (acc << 8) + parseInt(octet, 10), 0)
reduceOctets(octets, i, acc) ==
    IF i > Len(octets) THEN acc
    ELSE reduceOctets(octets, i + 1, AddW(Shl(acc, 8), ToWord(octets[i])))

\* ipToLong: only a string has .split; a number raises TypeError.
\* The trailing >>> 0 keeps the 32-bit pattern.
ipToLong(v) ==
    IF v.type = "string"
    THEN Returned(reduceOctets(v.octets, 1, ToWord(0)))
    ELSE Threw

\* cidrToMask: (-1 << (32 - prefix)) >>> 0, a number
cidrToMask(prefix) == Num(Shl(MinusOne, 32 - prefix))

\* isIPInRange(ip, range): "true", "false" or "throw"
isIPInRange(ip, range) ==
    IF range.prefix # NoPrefix
    THEN LET mask        == cidrToMask(range.prefix)
             ipLong      == ipToLong(Str(ip.ip))
             rangeIPLong == ipToLong(Str(range.ip))
             maskLong    == ipToLong(mask)
         IN  IF ~maskLong.ok \/ ~ipLong.ok \/ ~rangeIPLong.ok
             THEN "throw"
             ELSE IF AndW(ipLong.val, maskLong.val) = AndW(rangeIPLong.val, maskLong.val)
                  THEN "true" ELSE "false"
    ELSE IF ip = range THEN "true" ELSE "false"

\* for (const whitelistedIP of list) { if (isIPInRange(ip, whitelistedIP)) return true }
\* over the entries in iteration order; a raise inside the loop leaves it
RECURSIVE rangeLoop(_, _, _)
rangeLoop(ip, list, i) ==
    IF i > Len(list) THEN "false"
    ELSE LET r == isIPInRange(ip, list[i])
         IN  IF r = "false" THEN rangeLoop(ip, list, i + 1) ELSE r

\* the entries of a Set in its iteration order (the order findMany returned
\* them in, taken here as the order of EntryOrder)
RECURSIVE inOrder(_, _, _)
inOrder(order, set, i) ==
    IF i > Len(order) THEN <<>>
    ELSE (IF order[i] \in set THEN <<order[i]>> ELSE <<>>) \o inOrder(order, set, i + 1)

(***************************************************************************)
(* Bounded inputs.                                                         *)
(***************************************************************************)
A_192_168_1_5 == <<192, 168, 1, 5>>
A_192_168_1_0 == <<192, 168, 1, 0>>
A_192_168_2_0 == <<192, 168, 2, 0>>
A_10_0_0_1    == <<10, 0, 0, 1>>
A_0_0_0_0     == <<0, 0, 0, 0>>
A_255         == <<255, 255, 255, 255>>

CidrAddrs == {A_192_168_1_5, A_192_168_1_0, A_192_168_2_0, A_10_0_0_1, A_0_0_0_0, A_255}

PrefixLengths == 0..WordBits

CidrRanges == {Cidr(a, n) : a \in CidrAddrs, n \in PrefixLengths} \cup {Plain(a) : a \in CidrAddrs}

\* the allow-list entries, in the order findMany returns them
EntryOrder == <<Plain(A_10_0_0_1), Cidr(A_192_168_1_0, 24), Cidr(A_192_168_2_0, 24)>>

\* the rows the table ipWhitelist may hold under SpecGate
Entries == {Plain(A_10_0_0_1), Cidr(A_192_168_1_0, 24)}

\* req.ip of the requests
ClientIPs == {Plain(A_10_0_0_1), Plain(A_192_168_1_5)}

\* isIPAllowed(ip), reading this.whitelist
isIPAllowed(ip) ==
    IF ip \in whitelist THEN "true"
    ELSE rangeLoop(ip, inOrder(EntryOrder, whitelist, 1), 1)

(***************************************************************************)
(* The IP access gate: table, cache, reloads, admin operations, requests.  *)
(***************************************************************************)
NoRow == [exists |-> FALSE, enabled |-> FALSE, isAdminIP |-> FALSE]
Row(en, adm) == [exists |-> TRUE, enabled |-> en, isAdminIP |-> adm]

\* a rejected query
QueryFailed == [ok |-> FALSE, rows |-> {}]

\* prisma.ipWhitelist.findMany({ where: { enabled: true } }) on table t
findMany(t) ==
    [ok |-> TRUE,
     rows |-> {[ipAddress |-> e, isAdminIP |-> t[e].isAdminIP] : e \in {x \in Entries : t[x].enabled}}]

\* the two Sets that clear() and the forEach of loadWhitelist leave
loadedWhitelist(res) == {r.ipAddress : r \in {x \in res.rows : ~x.isAdminIP}}
loadedAdminIPs(res)  == {r.ipAddress : r \in {x \in res.rows : x.isAdminIP}}

\* the part of loadWhitelist after its await: clear and refill in one turn
\* of the event loop, or the catch block when the query was rejected
loadWhitelist(res) ==
    IF res.ok
    THEN /\ whitelist' = loadedWhitelist(res)
         /\ adminIPs' = loadedAdminIPs(res)
         /\ lastLoaded' = <<loadedWhitelist(res), loadedAdminIPs(res)>>
    ELSE UNCHANGED <<whitelist, adminIPs, lastLoaded>>

\* request paths, by segment
Health     == <<"health">>
ApiAuth    == <<"api", "auth">>
ApiAdmin   == <<"api", "admin">>
Paths == {Health, <<"api", "auth", "login">>, <<"api", "admin", "stats">>, <<"api", "members">>}

\* path.startsWith(prefix)
startsWith(path, prefix) ==
    /\ Len(path) >= Len(prefix)
    /\ SubSeq(path, 1, Len(prefix)) = prefix

NoCall == [kind |-> "none", ip |-> Plain(A_0_0_0_0), isAdminIP |-> FALSE, existing |-> FALSE]

NoReq == [handled |-> FALSE, ip |-> Plain(A_0_0_0_0), path |-> <<>>, outcome |-> "none",
          warned |-> FALSE, reloading |-> FALSE]

InitGate ==
    /\ db = [e \in Entries |-> NoRow]
    /\ whitelist = {}
    /\ adminIPs = {}
    /\ lastLoaded = <<{}, {}>>
    /\ timerPc = "idle"
    /\ timerSnap = QueryFailed
    /\ opPc = "idle"
    /\ opCall = NoCall
    /\ opSnap = QueryFailed
    /\ opResult = "none"
    /\ lastReq = NoReq
    /\ opAudited = FALSE

\* a loadWhitelist is past its query and about to change the cache
reloadPending(awaiting, res) ==
    /\ awaiting
    /\ res.ok
    /\ <<loadedWhitelist(res), loadedAdminIPs(res)>> # <<whitelist, adminIPs>>

\* the result middleware(req, res, next) reaches for req.ip = ip, req.path = path
gateOutcome(ip, path) ==
    IF path = Health THEN "next"
    ELSE IF startsWith(path, ApiAuth) THEN "next"
    ELSE IF ip \in whitelist THEN "next"
    ELSE IF startsWith(path, ApiAdmin)
         THEN (IF ip \in adminIPs THEN "next" ELSE "403")
    ELSE LET allowed == isIPAllowed(ip)
         IN  IF allowed = "true" THEN "next"
             ELSE IF allowed = "throw" THEN "throw"
             ELSE "403"

\* middleware: one synchronous call; logger.warn precedes each 403
middleware(ip, path) ==
    /\ lastReq' = [handled |-> TRUE, ip |-> ip, path |-> path,
                   outcome |-> gateOutcome(ip, path),
                   warned |-> (gateOutcome(ip, path) = "403"),
                   reloading |-> (whitelist # {} /\ (reloadPending(timerPc = "awaiting", timerSnap)
                                                      \/ reloadPending(opPc = "apply", opSnap)))]
    /\ UNCHANGED <<db, whitelist, adminIPs, lastLoaded, timerPc, timerSnap,
                   opPc, opCall, opSnap, opResult, opAudited>>
    /\ UNCHANGED notGate

\* the constructor's loadWhitelist() and each setInterval tick, up to the await:
\* the query runs on the table, or is rejected
TimerQuery ==
    /\ timerPc = "idle"
    /\ timerPc' = "awaiting"
    /\ \E failed \in BOOLEAN :
          timerSnap' = IF failed THEN QueryFailed ELSE findMany(db)
    /\ UNCHANGED <<db, whitelist, adminIPs, lastLoaded, opPc, opCall, opSnap,
                   opResult, lastReq, opAudited>>
    /\ UNCHANGED notGate

\* TimerApply as it would be with a second await between clear() and the
\* refill: a non-empty cache is emptied in one turn and refilled in a later one
TimerApplyTorn ==
    /\ timerPc = "awaiting"
    /\ IF timerSnap.ok /\ (whitelist # {} \/ adminIPs # {})
       THEN /\ whitelist' = {}
            /\ adminIPs' = {}
            /\ UNCHANGED <<lastLoaded, timerPc, timerSnap>>
       ELSE /\ loadWhitelist(timerSnap)
            /\ timerPc' = "idle"
            /\ timerSnap' = QueryFailed
    /\ UNCHANGED <<db, opPc, opCall, opSnap, opResult, lastReq, opAudited>>
    /\ UNCHANGED notGate

\* the timer's loadWhitelist resumes after its await
TimerApply ==
    /\ timerPc = "awaiting"
    /\ loadWhitelist(timerSnap)
    /\ timerPc' = "idle"
    /\ timerSnap' = QueryFailed
    /\ UNCHANGED <<db, opPc, opCall, opSnap, opResult, lastReq, opAudited>>
    /\ UNCHANGED notGate

\* addIP(ip, isAdminIP): the call and its findUnique
addIPCall(ip, isAdminIP) ==
    /\ opPc = "idle"
    /\ opPc' = "write"
    /\ opResult' = "none"
    /\ opCall' = [kind |-> "add", ip |-> ip, isAdminIP |-> isAdminIP, existing |-> db[ip].exists]
    /\ UNCHANGED <<db, whitelist, adminIPs, lastLoaded, timerPc, timerSnap,
                   opSnap, lastReq, opAudited>>
    /\ UNCHANGED notGate

\* addIP: update of the existing row, or create
addIPWrite ==
    /\ opPc = "write"
    /\ db' = [db EXCEPT ![opCall.ip] = Row(TRUE, opCall.isAdminIP)]
    /\ opPc' = "query"
    /\ opCall' = [opCall EXCEPT !.existing = FALSE]
    /\ UNCHANGED <<whitelist, adminIPs, lastLoaded, timerPc, timerSnap,
                   opSnap, opResult, lastReq, opAudited>>
    /\ UNCHANGED notGate

\* removeIP(ip): the call and its update; update of a missing row is rejected
removeIPCall(ip) ==
    /\ opPc = "idle"
    /\ opCall' = [kind |-> "remove", ip |-> ip, isAdminIP |-> FALSE, existing |-> db[ip].exists]
    /\ IF db[ip].exists
       THEN /\ db' = [db EXCEPT ![ip] = Row(FALSE, db[ip].isAdminIP)]
            /\ opPc' = "query"
            /\ opResult' = "none"
       ELSE /\ db' = db
            /\ opPc' = "done"
            /\ opResult' = "throw"
    /\ UNCHANGED <<whitelist, adminIPs, lastLoaded, timerPc, timerSnap,
                   opSnap, lastReq, opAudited>>
    /\ UNCHANGED notGate

\* await this.loadWhitelist() inside addIP / removeIP, up to its await
opLoadQuery ==
    /\ opPc = "query"
    /\ opPc' = "apply"
    /\ \E failed \in BOOLEAN :
          opSnap' = IF failed THEN QueryFailed ELSE findMany(db)
    /\ UNCHANGED <<db, whitelist, adminIPs, lastLoaded, timerPc, timerSnap,
                   opCall, opResult, lastReq, opAudited>>
    /\ UNCHANGED notGate

\* that loadWhitelist resumes; addIP / removeIP goes on to auditLog.create
opLoadApply ==
    /\ opPc = "apply"
    /\ loadWhitelist(opSnap)
    /\ opPc' = "audit"
    /\ opSnap' = QueryFailed
    /\ UNCHANGED <<db, timerPc, timerSnap, opCall, opResult, lastReq, opAudited>>
    /\ UNCHANGED notGate

\* prisma.auditLog.create and the return { success: true }; a rejected
\* create reaches the catch block, which rethrows
opAudit ==
    /\ opPc = "audit"
    /\ opPc' = "done"
    /\ \E failed \in BOOLEAN :
          IF failed
          THEN opResult' = "throw" /\ opAudited' = FALSE
          ELSE opResult' = "success" /\ opAudited' = TRUE
    /\ UNCHANGED <<db, whitelist, adminIPs, lastLoaded, timerPc, timerSnap,
                   opCall, opSnap, lastReq>>
    /\ UNCHANGED notGate

\* the caller has the result; the next admin call may start
opReturn ==
    /\ opPc = "done"
    /\ opPc' = "idle"
    /\ opCall' = NoCall
    /\ opResult' = "none"
    /\ opAudited' = FALSE
    /\ UNCHANGED <<db, whitelist, adminIPs, lastLoaded, timerPc, timerSnap,
                   opSnap, lastReq>>
    /\ UNCHANGED notGate

Next ==
    \/ \E ip \in ClientIPs, path \in Paths : middleware(ip, path)
    \/ TimerQuery
    \/ TimerApply
    \/ \E ip \in Entries, isAdminIP \in BOOLEAN : addIPCall(ip, isAdminIP)
    \/ addIPWrite
    \/ \E ip \in Entries : removeIPCall(ip)
    \/ opLoadQuery
    \/ opLoadApply
    \/ opAudit
    \/ opReturn

(***************************************************************************)
(* EmailService: sendEmail, sendBulkEmails, sendReminderEmail.             *)
(***************************************************************************)
\* this.templates after initialize(): empty when transporter.verify() was
\* rejected (loadTemplates is then never reached), else the loaded templates
TemplateSets == {{}, {"welcome", "reminder"}}

\* template names callers pass
TemplateNames == {"reminder", "newsletter"}

\* this.transporter after initialize(): the nodemailer transport, or still
\* null when createTransport raised
Transporters == {"smtp", "null"}

\* recipient addresses
Emails == {"ada@psn", "bello@psn"}

\* length of the longest recipient list handed to sendBulkEmails
MaxRecipients == 3

RecipientLists == UNION {[1..n -> Emails] : n \in 0..MaxRecipients}

\* sendEmail(to, subject, templateName, data): every raise inside its try
\* block (unknown template, null transporter, rejected sendMail) reaches its
\* catch block, which returns a failed result
sendEmail(to, templateName, sendMailOk) ==
    IF templateName \notin templates THEN [success |-> FALSE, to |-> to]
    ELSE IF transporter = "null" THEN [success |-> FALSE, to |-> to]
    ELSE IF sendMailOk THEN [success |-> TRUE, to |-> to]
    ELSE [success |-> FALSE, to |-> to]

\* sendReminderEmail(reminderData): sendEmail with the 'reminder' template
sendReminderEmail(reminderData, sendMailOk) ==
    sendEmail(reminderData.recipientEmail, "reminder", sendMailOk)

\* results.filter(pred).length
RECURSIVE countWhere(_, _, _)
countWhere(results, wanted, i) ==
    IF i > Len(results) THEN 0
    ELSE (IF results[i].success = wanted THEN 1 ELSE 0) + countWhere(results, wanted, i + 1)

NoReturn == [returned |-> FALSE, total |-> 0, sent |-> 0, failed |-> 0]

BulkIdle ==
    /\ bulkPc = "idle"
    /\ bulkRecipients = <<>>
    /\ bulkTemplate = "reminder"
    /\ bulkIdx = 1
    /\ bulkResults = <<>>
    /\ bulkCalls = <<>>
    /\ bulkReturn = NoReturn

\* sendBulkEmails(recipients, subject, templateName, data) is called
sendBulkEmailsCall(recipients, templateName) ==
    /\ bulkPc = "idle"
    /\ bulkPc' = "loop"
    /\ bulkRecipients' = recipients
    /\ bulkTemplate' = templateName
    /\ bulkIdx' = 1
    /\ bulkResults' = <<>>
    /\ bulkCalls' = <<>>
    /\ bulkReturn' = NoReturn
    /\ UNCHANGED notBulk

\* one turn of the loop as it would be without a catch on the way: a failed
\* send ends the call with the error
sendBulkEmailsStepAborting ==
    /\ bulkPc = "loop"
    /\ bulkIdx <= Len(bulkRecipients)
    /\ \E sendMailOk \in BOOLEAN :
          LET result == sendEmail(bulkRecipients[bulkIdx], bulkTemplate, sendMailOk)
          IN  /\ bulkCalls' = Append(bulkCalls, [to |-> bulkRecipients[bulkIdx], sendMailOk |-> sendMailOk])
              /\ IF result.success
                 THEN /\ bulkResults' = Append(bulkResults, result)
                      /\ bulkIdx' = bulkIdx + 1
                      /\ bulkPc' = "loop"
                 ELSE /\ bulkResults' = bulkResults
                      /\ bulkIdx' = bulkIdx
                      /\ bulkPc' = "thrown"
    /\ UNCHANGED <<bulkRecipients, bulkTemplate, bulkReturn>>
    /\ UNCHANGED notBulk

\* one turn of the for-of loop: await sendEmail(recipient.email, ...), push
\* the result, wait 100 ms
sendBulkEmailsStep ==
    /\ bulkPc = "loop"
    /\ bulkIdx <= Len(bulkRecipients)
    /\ \E sendMailOk \in BOOLEAN :
          LET result == sendEmail(bulkRecipients[bulkIdx], bulkTemplate, sendMailOk)
          IN  /\ bulkCalls' = Append(bulkCalls, [to |-> bulkRecipients[bulkIdx], sendMailOk |-> sendMailOk])
              /\ bulkResults' = Append(bulkResults, result)
    /\ bulkIdx' = bulkIdx + 1
    /\ UNCHANGED <<bulkPc, bulkRecipients, bulkTemplate, bulkReturn>>
    /\ UNCHANGED notBulk

\* the loop is over: return { total, sent, failed, results }
sendBulkEmailsReturn ==
    /\ bulkPc = "loop"
    /\ bulkIdx > Len(bulkRecipients)
    /\ bulkPc' = "returned"
    /\ bulkReturn' = [returned |-> TRUE,
                      total |-> Len(bulkRecipients),
                      sent |-> countWhere(bulkResults, TRUE, 1),
                      failed |-> countWhere(bulkResults, FALSE, 1)]
    /\ UNCHANGED <<bulkRecipients, bulkTemplate, bulkIdx, bulkResults, bulkCalls>>
    /\ UNCHANGED notBulk

(***************************************************************************)
(* Calendar dates.  A date is [y, m, d]; DayNumber counts the days from    *)
(* the first day of the first year of Years.                               *)
(***************************************************************************)
Years == 2023..2027

Date(y, m, d) == [y |-> y, m |-> m, d |-> d]

isLeap(y) == (y % 4 = 0 /\ y % 100 # 0) \/ y % 400 = 0

daysInMonth(y, m) ==
    IF m = 2 THEN (IF isLeap(y) THEN 29 ELSE 28)
    ELSE IF m \in {4, 6, 9, 11} THEN 30 ELSE 31

RECURSIVE daysBeforeMonth(_, _)
daysBeforeMonth(y, m) == IF m = 1 THEN 0 ELSE daysBeforeMonth(y, m - 1) + daysInMonth(y, m - 1)

RECURSIVE daysBeforeYear(_)
daysBeforeYear(y) ==
    IF y \notin Years \/ y - 1 \notin Years THEN 0
    ELSE daysBeforeYear(y - 1) + (IF isLeap(y - 1) THEN 366 ELSE 365)

\* the number of the day that holds local midnight of the date
DayNumber(date) == daysBeforeYear(date.y) + daysBeforeMonth(date.y, date.m) + date.d

(***************************************************************************)
(* The reminder batch.  The repository holds no Due-Date Evaluator and no  *)
(* scheduler: their steps follow the specification's sections 4.1 and 5.   *)
(* The dispatch itself is EmailService.sendReminderEmail.                  *)
(***************************************************************************)
\* node processes pm2 starts for instances: 'max' (one per core)
NumInstances == 2

Instances == 1..NumInstances

\* batch runs started in one behaviour
MaxRuns == 2

\* dispatches of one pair in one behaviour of SpecDispatch
MaxAttempts == 2

Dates == {"birthday", "anniversary"}

\* the (date, resolved recipient) pairs, in the evaluator's order
PairOrder == <<[date |-> "birthday", recipientEmail |-> "ada@psn"],
               [date |-> "birthday", recipientEmail |-> "bello@psn"],
               [date |-> "anniversary", recipientEmail |-> "ada@psn"]>>

Pairs == {PairOrder[i] : i \in 1..Len(PairOrder)}

\* a ReminderLog entry exists for the occurrence and recipient of pair p
isLogged(p) ==
    \E i \in 1..Len(reminderLog) :
        reminderLog[i].date = p.date /\ reminderLog[i].recipientEmail = p.recipientEmail

\* the look-ahead window, in hours
WindowHours == 24

\* a stored SpecialDate and the evaluator's "now" (a date and an hour, UTC)
Stored(date, isAnnual) == [date |-> date, isAnnual |-> isAnnual]
Instant(date, hour) == [date |-> date, hour |-> hour]

\* next occurrence of a stored date at "now": for an annual date the stored
\* month/day in the current year, or in the next year if that day has
\* passed; for a one-off date the stored date
nextOccurrence(st, now) ==
    IF ~st.isAnnual THEN st.date
    ELSE LET thisYear == Date(now.y, st.date.m, st.date.d)
         IN  IF DayNumber(thisYear) >= DayNumber(now) THEN thisYear
             ELSE Date(now.y + 1, st.date.m, st.date.d)

hoursOf(instant) == DayNumber(instant.date) * 24 + instant.hour

\* the occurrence (its 00:00) lies inside the window, both bounds included
inWindow(d) ==
    LET occ == hoursOf(Instant(nextOccurrence(storedDates[d], evalNow.date), 0))
    IN  hoursOf(evalNow) <= occ /\ occ <= hoursOf(evalNow) + WindowHours

\* duePairs as it would be without the reminderEnabled test
RECURSIVE duePairsIgnoringFlag(_)
duePairsIgnoringFlag(i) ==
    IF i > Len(PairOrder) THEN <<>>
    ELSE (IF inWindow(PairOrder[i].date) /\ ~isLogged(PairOrder[i])
          THEN <<PairOrder[i]>> ELSE <<>>) \o duePairsIgnoringFlag(i + 1)

\* Due-Date Evaluator: the pairs of the dates whose next occurrence lies
\* inside the window, with reminders enabled and nothing logged
RECURSIVE duePairs(_)
duePairs(i) ==
    IF i > Len(PairOrder) THEN <<>>
    ELSE (IF inWindow(PairOrder[i].date) /\ reminderEnabled[PairOrder[i].date]
             /\ ~isLogged(PairOrder[i])
          THEN <<PairOrder[i]>> ELSE <<>>) \o duePairs(i + 1)

\* the evaluator's clock and the stored dates outside SpecWindow: both dates
\* inside the window of one "now"
ClockIdle ==
    /\ evalNow = Instant(Date(2025, 5, 14), 0)
    /\ storedDates = [d \in Dates |-> IF d = "birthday" THEN Stored(Date(2024, 5, 15), TRUE)
                                       ELSE Stored(Date(2025, 5, 14), FALSE)]

RemIdle ==
    /\ reminderEnabled = [d \in Dates |-> TRUE]
    /\ reminderLog = <<>>
    /\ batchPc = [i \in Instances |-> "idle"]
    /\ batchQueue = [i \in Instances |-> <<>>]
    /\ attempts = [p \in Pairs |-> 0]
    /\ delivered = [p \in Pairs |-> 0]
    /\ runsStarted = 0
    /\ runsFinished = 0
    /\ overlapped = FALSE

MailIdle ==
    /\ transporter = "smtp"
    /\ templates = {"welcome", "reminder"}
    /\ BulkIdle
    /\ RemIdle

\* sendEmail has not been called
SendIdle == sendCalls = <<>>

(***************************************************************************)
(* The member dashboard's next-of-kin list (DashboardState.nextOfKin) and  *)
(* its handlers.  The repository holds no Recipient Resolver: resolve      *)
(* follows the specification's section 4.2 and reads that list.            *)
(***************************************************************************)
\* ids of the mock records, and ids generateId() may return
MockIds == {"1", "2"}
GeneratedIds == {"k3"}
KinIds == MockIds \cup GeneratedIds

\* DashboardState.currentEditId = null
NoId == ""

KinEmails == {"", "kin@psn"}

\* length of the longest next-of-kin list
MaxKin == 3

Kin(id, isPrimary, email) == [id |-> id, isPrimary |-> isPrimary, email |-> email]

\* generateMockNextOfKin()
generateMockNextOfKin == <<Kin("1", TRUE, "kin@psn"), Kin("2", FALSE, "kin@psn")>>

\* loadNextOfKin(): with the ApiService object on the page the call
\* ApiService.getNextOfKin() raises TypeError (the object has no such method)
\* and the catch block leaves the empty list; without it, the mock records
loadNextOfKin(api) == IF api = "defined" THEN <<>> ELSE generateMockNextOfKin

NoResolution == [called |-> FALSE, raised |-> FALSE, recipients |-> {}, kinCount |-> 0, list |-> <<>>]

KinIdle ==
    /\ apiService = "undefined"
    /\ nextOfKin = loadNextOfKin("undefined")
    /\ isEditing = FALSE
    /\ currentEditId = NoId
    /\ kinNotice = "none"
    /\ resolved = NoResolution

\* saveNewKin lines 745-748 as they would be without the forEach
clearPrimaryKeepingFlags(list, isPrimary) == list

\* if (isPrimary) DashboardState.nextOfKin.forEach(kin => kin.isPrimary = false)
clearPrimary(list, isPrimary) ==
    IF isPrimary THEN [i \in 1..Len(list) |-> [list[i] EXCEPT !.isPrimary = FALSE]]
    ELSE list

\* list.findIndex(k => k.id === id), 0 for -1
RECURSIVE findIndex(_, _, _)
findIndex(list, id, i) ==
    IF i > Len(list) THEN 0
    ELSE IF list[i].id = id THEN i ELSE findIndex(list, id, i + 1)

\* list.filter(k => k.id !== id)
RECURSIVE filterOut(_, _, _)
filterOut(list, id, i) ==
    IF i > Len(list) THEN <<>>
    ELSE (IF list[i].id # id THEN <<list[i]>> ELSE <<>>) \o filterOut(list, id, i + 1)

\* openAddKinModal()
openAddKinModal ==
    /\ isEditing' = FALSE
    /\ currentEditId' = NoId
    /\ UNCHANGED <<apiService, nextOfKin, kinNotice, resolved>>
    /\ UNCHANGED notKin

\* editKin(kinId): nothing happens when the record is not in the list
editKin(kinId) ==
    /\ findIndex(nextOfKin, kinId, 1) # 0
    /\ isEditing' = TRUE
    /\ currentEditId' = kinId
    /\ UNCHANGED <<apiService, nextOfKin, kinNotice, resolved>>
    /\ UNCHANGED notKin

\* the script that declares ApiService is evaluated after the dashboard has
\* loaded its list: from then on typeof ApiService is 'object'
apiServiceLoaded ==
    /\ apiService = "undefined"
    /\ apiService' = "defined"
    /\ UNCHANGED <<nextOfKin, isEditing, currentEditId, kinNotice, resolved>>
    /\ UNCHANGED notKin

\* saveNewKin() with the form's values: valid stands for the three checks of
\* the required fields, the phone number and the e-mail address.  The call
\* ApiService.updateNextOfKin / addNextOfKin raises TypeError when ApiService
\* is on the page (it has no such method), which the catch block reports;
\* the flags cleared before the call stay cleared.
saveNewKin(valid, isPrimary, email, newId) ==
    /\ IF ~valid
       THEN /\ kinNotice' = "error"
            /\ UNCHANGED <<nextOfKin, isEditing, currentEditId>>
       ELSE LET cleared == clearPrimary(nextOfKin, isPrimary)
            IN  IF apiService = "defined"
                THEN /\ nextOfKin' = cleared
                     /\ kinNotice' = "error"
                     /\ UNCHANGED <<isEditing, currentEditId>>
                ELSE /\ IF isEditing /\ currentEditId # NoId
                        THEN LET index == findIndex(cleared, currentEditId, 1)
                             IN  nextOfKin' = IF index # 0
                                              THEN [cleared EXCEPT ![index] = Kin(currentEditId, isPrimary, email)]
                                              ELSE cleared
                        ELSE nextOfKin' = Append(cleared, Kin(newId, isPrimary, email))
                     /\ kinNotice' = "success"
                     /\ isEditing' = FALSE
                     /\ currentEditId' = NoId
    /\ UNCHANGED <<apiService, resolved>>
    /\ UNCHANGED notKin

\* deleteKin(kinId): confirm(), the API call, the filter
deleteKin(kinId, confirmed) ==
    /\ IF ~confirmed
       THEN UNCHANGED <<nextOfKin, kinNotice>>
       ELSE IF apiService = "defined"
            THEN /\ kinNotice' = "error"
                 /\ UNCHANGED nextOfKin
            ELSE /\ nextOfKin' = filterOut(nextOfKin, kinId, 1)
                 /\ kinNotice' = "success"
    /\ UNCHANGED <<apiService, isEditing, currentEditId, resolved>>
    /\ UNCHANGED notKin

\* Recipient Resolver, primary_kin: the NextOfKin with the primary flag, or
\* nothing when there is none (a resolution gap, not a failure)
primaryKinRequired(list, i) ==
    IF \E j \in 1..Len(list) : list[j].isPrimary
    THEN [ok |-> TRUE, list |-> <<list[CHOOSE j \in 1..Len(list) : list[j].isPrimary].email>>]
    ELSE [ok |-> FALSE, list |-> <<>>]

RECURSIVE primaryKin(_, _)
primaryKin(list, i) ==
    IF i > Len(list) THEN [ok |-> TRUE, list |-> <<>>]
    ELSE IF list[i].isPrimary THEN [ok |-> TRUE, list |-> <<list[i].email>>]
    ELSE primaryKin(list, i + 1)

\* Recipient Resolver, all_kin: every NextOfKin with a non-empty email
RECURSIVE allKin(_, _)
allKin(list, i) ==
    IF i > Len(list) THEN <<>>
    ELSE (IF list[i].email # "" THEN <<list[i].email>> ELSE <<>>) \o allKin(list, i + 1)

\* recipient sets of the member's dates
RecipientSets == {{"member"}, {"primary_kin"}, {"member", "primary_kin"}, {"member", "all_kin"}}

\* Recipient Resolver: the addresses of a recipient set for the member
resolve(recipients) ==
    LET pk == IF "primary_kin" \in recipients THEN primaryKin(nextOfKin, 1)
              ELSE [ok |-> TRUE, list |-> <<>>]
    IN  [called |-> TRUE,
         raised |-> ~pk.ok,
         recipients |-> recipients,
         kinCount |-> Len(nextOfKin),
         list |-> IF ~pk.ok THEN <<>>
                  ELSE (IF "member" \in recipients THEN <<"ada@psn">> ELSE <<>>)
                       \o pk.list
                       \o (IF "all_kin" \in recipients THEN allKin(nextOfKin, 1) ELSE <<>>)]

\* the resolver is asked for the recipients of one of the member's dates
resolveRecipients(recipients) ==
    /\ resolved' = resolve(recipients)
    /\ UNCHANGED <<apiService, nextOfKin, isEditing, currentEditId, kinNotice>>
    /\ UNCHANGED notKin

(***************************************************************************)
(* WebSocketService: this.clients (userId -> socket), the room             *)
(* 'admin:notifications' of this.rooms, and broadcastReminderSent.         *)
(***************************************************************************)
Users == {"u1", "u2"}

\* members whose row has isAdmin
Admins == {"u1"}

\* reminder.memberId absent
NoUser == "none"

\* this.clients.get(userId) is undefined
NoSocket == "none"

\* readyState of a server-side socket
ReadyStates == {"OPEN", "CLOSING", "CLOSED"}

NoBroadcast == [called |-> FALSE, raised |-> FALSE, memberId |-> NoUser, delivered |-> {},
                skipped |-> {}]

WsIdle ==
    /\ clients = [u \in Users |-> NoSocket]
    /\ room = <<>>
    /\ subscribing = [u \in Users |-> FALSE]
    /\ broadcast = NoBroadcast
    /\ others = [u \in Users |-> NoSocket]

\* ws.send(data) without a callback: an open socket queues the frame and
\* returns at once; on a socket that is not open the ws library, depending on
\* its version, raises or drops the frame
wsSend(readyState, strict) ==
    IF readyState = "OPEN" THEN "sent"
    ELSE IF strict THEN "throw" ELSE "dropped"

\* sendToUser as it would be without its guard
sendToUserUnguarded(userId, strict) ==
    IF clients[userId] = NoSocket THEN "throw"
    ELSE wsSend(clients[userId], strict)

\* sendToUser(userId, data): "sent", "skipped", or "throw" when ws.send raises
sendToUser(userId, strict) ==
    IF clients[userId] # NoSocket /\ clients[userId] = "OPEN"
    THEN wsSend(clients[userId], strict)
    ELSE "skipped"

\* the outcome of a list of sendToUser calls made one after the other: the
\* users reached, the users skipped, and whether a call raised (which ends
\* the list)
RECURSIVE sendEach(_, _, _, _)
sendEach(list, i, strict, acc) ==
    IF i > Len(list) THEN acc
    ELSE LET r == sendToUser(list[i], strict)
         IN  IF r = "throw" THEN [acc EXCEPT !.raised = TRUE]
             ELSE IF r = "sent"
                  THEN sendEach(list, i + 1, strict, [acc EXCEPT !.delivered = @ \cup {list[i]}])
                  ELSE sendEach(list, i + 1, strict, [acc EXCEPT !.skipped = @ \cup {list[i]}])

\* Set.add / Set.delete on the room, kept in insertion order
setAdd(list, u) == IF \E i \in 1..Len(list) : list[i] = u THEN list ELSE Append(list, u)

RECURSIVE setDelete(_, _, _)
setDelete(list, u, i) ==
    IF i > Len(list) THEN <<>>
    ELSE (IF list[i] # u THEN <<list[i]>> ELSE <<>>) \o setDelete(list, u, i + 1)

\* the two sockets a user may have at a time: the one this.clients holds for
\* the user id and one more that this.clients does not hold
Sockets == {"registered", "other"}

\* handleConnection up to its await: the token verified, the socket stored
\* under the user id.  this.clients.set replaces the socket stored before,
\* which stays connected with its handlers in place.
handleConnection(u) ==
    /\ others[u] = NoSocket
    /\ clients' = [clients EXCEPT ![u] = "OPEN"]
    /\ others' = [others EXCEPT ![u] = clients[u]]
    /\ subscribing' = [subscribing EXCEPT ![u] = TRUE]
    /\ UNCHANGED <<room, broadcast>>
    /\ UNCHANGED notWs

\* subscribeToRooms after its await: an admin joins 'admin:notifications',
\* whether or not the socket is still there
subscribeToRooms(u) ==
    /\ subscribing[u]
    /\ subscribing' = [subscribing EXCEPT ![u] = FALSE]
    /\ room' = IF u \in Admins THEN setAdd(room, u) ELSE room
    /\ UNCHANGED <<clients, broadcast, others>>
    /\ UNCHANGED notWs

\* handleMessage, SUBSCRIBE / UNSUBSCRIBE for the room, from an open socket
\* of the user: joinRoom(userId, message.room) / leaveRoom
handleMessage(u, type) ==
    /\ clients[u] = "OPEN" \/ others[u] = "OPEN"
    /\ room' = IF type = "SUBSCRIBE" THEN setAdd(room, u) ELSE setDelete(room, u, 1)
    /\ UNCHANGED <<clients, subscribing, broadcast, others>>
    /\ UNCHANGED notWs

\* a connection of u goes down: readyState CLOSING, then CLOSED
socketCloses(u, socket) ==
    LET down(s) == IF s = "OPEN" THEN "CLOSING" ELSE "CLOSED"
    IN  /\ IF socket = "registered"
           THEN /\ clients[u] \in {"OPEN", "CLOSING"}
                /\ clients' = [clients EXCEPT ![u] = down(@)]
                /\ UNCHANGED others
           ELSE /\ others[u] \in {"OPEN", "CLOSING"}
                /\ others' = [others EXCEPT ![u] = down(@)]
                /\ UNCHANGED clients
        /\ UNCHANGED <<room, subscribing, broadcast>>
        /\ UNCHANGED notWs

\* handleDisconnection(userId), on the 'close' event of one of the user's
\* sockets: the user id leaves every room and this.clients, whichever socket
\* closed.  A socket that was stored and is still connected stays connected
\* without being stored.
handleDisconnection(u, socket) ==
    /\ IF socket = "registered" THEN clients[u] = "CLOSED" ELSE others[u] = "CLOSED"
    /\ room' = setDelete(room, u, 1)
    /\ clients' = [clients EXCEPT ![u] = NoSocket]
    /\ others' = [others EXCEPT ![u] = IF socket = "registered" THEN @ ELSE clients[u]]
    /\ UNCHANGED <<subscribing, broadcast>>
    /\ UNCHANGED notWs

\* broadcastReminderSent(reminder): broadcastToRoom('admin:notifications')
\* and then sendToUser(reminder.memberId); one synchronous call
broadcastReminderSent(memberId) ==
    /\ \E strict \in BOOLEAN :
          LET toRoom == sendEach(room, 1, strict,
                                 [called |-> TRUE, raised |-> FALSE, memberId |-> memberId,
                                  delivered |-> {}, skipped |-> {}])
          IN  broadcast' = IF toRoom.raised \/ memberId = NoUser THEN toRoom
                           ELSE sendEach(<<memberId>>, 1, strict, toRoom)
    /\ UNCHANGED <<clients, room, subscribing, others>>
    /\ UNCHANGED notWs

(***************************************************************************)
(* database.js: testConnection and ensureAdminUser, run by every node      *)
(* process that pm2 starts.  adminRows counts the rows of table member     *)
(* with email = DEFAULT_ADMIN_EMAIL; the column is unique (findUnique).    *)
(***************************************************************************)
\* calls of testConnection in one behaviour
MaxBoots == 3

BootIdle ==
    /\ adminEnv = TRUE
    /\ adminRows = 0
    /\ bootPc = [i \in Instances |-> "idle"]
    /\ bootFound = [i \in Instances |-> FALSE]
    /\ bootResult = [i \in Instances |-> "none"]
    /\ bootFailedAt = [i \in Instances |-> "none"]
    /\ bootsStarted = 0

\* testConnection(): await prisma.$connect(); a rejected connect reaches the
\* catch block, which returns false
testConnection(inst) ==
    /\ bootPc[inst] \in {"idle", "done"}
    /\ bootsStarted < MaxBoots
    /\ bootsStarted' = bootsStarted + 1
    /\ bootFound' = [bootFound EXCEPT ![inst] = FALSE]
    /\ \E connected \in BOOLEAN :
          IF connected
          THEN /\ bootPc' = [bootPc EXCEPT ![inst] = "ensure"]
               /\ bootResult' = [bootResult EXCEPT ![inst] = "none"]
               /\ bootFailedAt' = [bootFailedAt EXCEPT ![inst] = "none"]
          ELSE /\ bootPc' = [bootPc EXCEPT ![inst] = "done"]
               /\ bootResult' = [bootResult EXCEPT ![inst] = "false"]
               /\ bootFailedAt' = [bootFailedAt EXCEPT ![inst] = "connect"]
    /\ UNCHANGED <<adminEnv, adminRows>>
    /\ UNCHANGED notBoot

\* ensureAdminUser up to the end of its findUnique: without the two
\* environment variables it returns at once and testConnection returns true
ensureAdminUserFind(inst) ==
    /\ bootPc[inst] = "ensure"
    /\ IF ~adminEnv
       THEN /\ bootPc' = [bootPc EXCEPT ![inst] = "done"]
            /\ bootResult' = [bootResult EXCEPT ![inst] = "true"]
            /\ UNCHANGED bootFound
       ELSE /\ bootFound' = [bootFound EXCEPT ![inst] = (adminRows > 0)]
            /\ bootPc' = [bootPc EXCEPT ![inst] = IF adminRows > 0 THEN "return" ELSE "hash"]
            /\ UNCHANGED bootResult
    /\ UNCHANGED <<adminEnv, adminRows, bootFailedAt, bootsStarted>>
    /\ UNCHANGED notBoot

\* await bcrypt.hash(...)
ensureAdminUserHash(inst) ==
    /\ bootPc[inst] = "hash"
    /\ bootPc' = [bootPc EXCEPT ![inst] = "create"]
    /\ UNCHANGED <<adminEnv, adminRows, bootFound, bootResult, bootFailedAt, bootsStarted>>
    /\ UNCHANGED notBoot

\* await prisma.member.create(...): rejected with a unique-constraint error
\* when a row with the address exists by now; the error leaves
\* ensureAdminUser and reaches the catch block of testConnection
ensureAdminUserCreate(inst) ==
    /\ bootPc[inst] = "create"
    /\ IF adminRows > 0
       THEN /\ bootPc' = [bootPc EXCEPT ![inst] = "done"]
            /\ bootResult' = [bootResult EXCEPT ![inst] = "false"]
            /\ bootFailedAt' = [bootFailedAt EXCEPT ![inst] = "create"]
            /\ UNCHANGED adminRows
       ELSE /\ adminRows' = adminRows + 1
            /\ bootPc' = [bootPc EXCEPT ![inst] = "return"]
            /\ UNCHANGED <<bootResult, bootFailedAt>>
    /\ UNCHANGED <<adminEnv, bootFound, bootsStarted>>
    /\ UNCHANGED notBoot

\* ensureAdminUser has returned: testConnection returns true
testConnectionReturn(inst) ==
    /\ bootPc[inst] = "return"
    /\ bootPc' = [bootPc EXCEPT ![inst] = "done"]
    /\ bootResult' = [bootResult EXCEPT ![inst] = "true"]
    /\ UNCHANGED <<adminEnv, adminRows, bootFound, bootFailedAt, bootsStarted>>
    /\ UNCHANGED notBoot

(***************************************************************************)
(* The dashboard's special dates: getDaysUntil and updateStats.            *)
(***************************************************************************)
NoDays == -1000

\* new Date('YYYY-MM-DD') is midnight UTC; setHours(0, 0, 0, 0) moves it to
\* the local midnight before it, which is the day before in a time zone
\* west of Greenwich
localDay(date, west) == DayNumber(date) - (IF west THEN 1 ELSE 0)

\* getDaysUntil(date): Math.ceil((target - today) / one day), both at local
\* midnight (time zones without daylight saving)
getDaysUntil(date, now, west) == localDay(date, west) - DayNumber(now)

DatesIdle ==
    /\ specialDate = Stored(Date(2024, 5, 15), TRUE)
    /\ today = Date(2025, 5, 14)
    /\ tzWest = FALSE
    /\ daysUntil = NoDays
    /\ upcoming = NoDays

\* updateSpecialDatesUI: const daysUntil = getDaysUntil(date.date)
getDaysUntilCall ==
    /\ daysUntil = NoDays
    /\ daysUntil' = getDaysUntil(specialDate.date, today, tzWest)
    /\ UNCHANGED <<specialDate, today, tzWest, upcoming>>
    /\ UNCHANGED notDates

\* updateStats(): the number of dates with 0 <= daysUntil <= 60
updateStats ==
    /\ upcoming = NoDays
    /\ upcoming' = LET n == getDaysUntil(specialDate.date, today, tzWest)
                   IN  IF n >= 0 /\ n <= 60 THEN 1 ELSE 0
    /\ UNCHANGED <<specialDate, today, tzWest, daysUntil>>
    /\ UNCHANGED notDates

(***************************************************************************)
(* BackupService: createBackup and restoreBackup.  Table backup lives in   *)
(* the database that pg_dump writes to the dump file and that              *)
(* restoreDatabase drops, recreates and fills from that file.              *)
(***************************************************************************)
\* createBackup calls in one behaviour
MaxBackups == 3

\* a backup is named by the time of the call: every call has its own id
BackupIds == 1..MaxBackups

BackupUsers == {"admin1", "admin2"}

NoUserId == "none"

NoBackupRow == [exists |-> FALSE, status |-> "none", restored |-> FALSE, restoredById |-> NoUserId]

\* the row prisma.backup.create writes
BackupRow(status) == [exists |-> TRUE, status |-> status, restored |-> FALSE, restoredById |-> NoUserId]

EmptyBackupTable == [b \in BackupIds |-> NoBackupRow]

NoRestore == [backupId |-> 0, userId |-> NoUserId, dbRestored |-> FALSE, uploadsDone |-> FALSE]

BackupIdle ==
    /\ backupRows = EmptyBackupTable
    /\ dumps = [b \in BackupIds |-> EmptyBackupTable]
    /\ backupsMade = 0
    /\ createPc = "idle"
    /\ createId = 0
    /\ restorePc = "idle"
    /\ restoreCall = NoRestore
    /\ restoreResult = "none"

\* createBackup(userId): the id is taken, the backup directory made
createBackup ==
    /\ createPc = "idle"
    /\ backupsMade < MaxBackups
    /\ backupsMade' = backupsMade + 1
    /\ createId' = backupsMade + 1
    /\ createPc' = "dump"
    /\ UNCHANGED <<backupRows, dumps, restorePc, restoreCall, restoreResult>>
    /\ UNCHANGED notBackup

\* backupDatabase(backupPath): pg_dump writes the database as it is now, or
\* fails, which createBackup's catch block records
backupDatabase ==
    /\ createPc = "dump"
    /\ \E ok \in BOOLEAN :
          IF ok
          THEN /\ dumps' = [dumps EXCEPT ![createId] = backupRows]
               /\ createPc' = "record"
          ELSE /\ dumps' = dumps
               /\ createPc' = "failed"
    /\ UNCHANGED <<backupRows, backupsMade, createId, restorePc, restoreCall, restoreResult>>
    /\ UNCHANGED notBackup

\* the rest of createBackup: uploads, metadata.json, S3 when configured,
\* then prisma.backup.create with status 'completed'; a failure on the way
\* reaches the catch block
createBackupRecord ==
    /\ createPc = "record"
    /\ \E ok \in BOOLEAN :
          IF ok
          THEN /\ backupRows' = [backupRows EXCEPT ![createId] = BackupRow("completed")]
               /\ createPc' = "idle"
          ELSE /\ backupRows' = backupRows
               /\ createPc' = "failed"
    /\ UNCHANGED <<dumps, backupsMade, createId, restorePc, restoreCall, restoreResult>>
    /\ UNCHANGED notBackup

\* createBackup's catch block: the 'failed' row, then the rethrow
createBackupFailed ==
    /\ createPc = "failed"
    /\ backupRows' = [backupRows EXCEPT ![createId] = BackupRow("failed")]
    /\ createPc' = "idle"
    /\ UNCHANGED <<dumps, backupsMade, createId, restorePc, restoreCall, restoreResult>>
    /\ UNCHANGED notBackup

\* restoreBackup(backupId, userId) up to metadata.json: findUnique; no row,
\* or a 'failed' row (which has no location), raises
restoreBackup(backupId, userId) ==
    /\ restorePc = "idle"
    /\ restoreCall' = [backupId |-> backupId, userId |-> userId,
                       dbRestored |-> FALSE, uploadsDone |-> FALSE]
    /\ restoreResult' = "none"
    /\ restorePc' = IF backupRows[backupId].exists /\ backupRows[backupId].status = "completed"
                    THEN "database" ELSE "catch"
    /\ UNCHANGED <<backupRows, dumps, backupsMade, createPc, createId>>
    /\ UNCHANGED notBackup

\* restoreDatabase(backupPath, dbFile): DROP DATABASE, CREATE DATABASE,
\* pg_restore.  A command that fails raises; after a failed pg_restore the
\* database is the empty one just created
restoreDatabase ==
    /\ restorePc = "database"
    /\ \E outcome \in {"restored", "dropFailed", "restoreFailed"} :
          /\ backupRows' = IF outcome = "restored" THEN dumps[restoreCall.backupId]
                           ELSE IF outcome = "restoreFailed" THEN EmptyBackupTable
                           ELSE backupRows
          /\ restorePc' = IF outcome = "restored" THEN "uploads" ELSE "catch"
          /\ restoreCall' = [restoreCall EXCEPT !.dbRestored = (outcome = "restored")]
    /\ UNCHANGED <<dumps, backupsMade, createPc, createId, restoreResult>>
    /\ UNCHANGED notBackup

\* restoreUploads(backupPath, uploadsFile), when the backup has an uploads
\* file: its errors are logged and swallowed
restoreUploads ==
    /\ restorePc = "uploads"
    /\ restorePc' = "record"
    /\ \E ok \in BOOLEAN : restoreCall' = [restoreCall EXCEPT !.uploadsDone = ok]
    /\ UNCHANGED <<backupRows, dumps, backupsMade, createPc, createId, restoreResult>>
    /\ UNCHANGED notBackup

\* prisma.backup.update({ where: { id: backup.id }, data: { restoredAt,
\* restoredById } }), rejected when the table holds no such row, then
\* prisma.auditLog.create and return { success: true, ... }
restoreRecord ==
    /\ restorePc = "record"
    /\ IF backupRows[restoreCall.backupId].exists
       THEN /\ backupRows' = [backupRows EXCEPT ![restoreCall.backupId] =
                                  [@ EXCEPT !.restored = TRUE, !.restoredById = restoreCall.userId]]
            /\ \E audited \in BOOLEAN :
                  IF audited
                  THEN restorePc' = "done" /\ restoreResult' = "success"
                  ELSE restorePc' = "catch" /\ restoreResult' = restoreResult
       ELSE /\ backupRows' = backupRows
            /\ restorePc' = "catch"
            /\ restoreResult' = restoreResult
    /\ UNCHANGED <<dumps, backupsMade, createPc, createId, restoreCall>>
    /\ UNCHANGED notBackup

\* restoreBackup's catch block: the BACKUP_RESTORE_FAILED audit entry, then
\* the rethrow (a rejected audit write raises as well)
restoreCatch ==
    /\ restorePc = "catch"
    /\ restorePc' = "done"
    /\ restoreResult' = "throw"
    /\ UNCHANGED <<backupRows, dumps, backupsMade, createPc, createId, restoreCall>>
    /\ UNCHANGED notBackup

\* the caller has the outcome; the next restore may start
restoreReturn ==
    /\ restorePc = "done"
    /\ restorePc' = "idle"
    /\ restoreCall' = NoRestore
    /\ restoreResult' = "none"
    /\ UNCHANGED <<backupRows, dumps, backupsMade, createPc, createId>>
    /\ UNCHANGED notBackup

(***************************************************************************)
(* TwoFactorService: the backup codes of one user (table                   *)
(* twoFactorBackupCode) and verifyBackupCode, called by several logins.    *)
(***************************************************************************)
MaxVerifies == 3

\* the verifyBackupCode calls that can be in flight together
Verifiers == {"v1", "v2"}

\* the codes a login can submit: the two generated for the user and one
\* that was never generated
SubmittedCodes == {"K1", "K2", "XX"}

\* hashCode(code): sha256 of code + JWT_SECRET, as a hex digest
hashCode(code) ==
    CASE code = "K1" -> "9f2c"
      [] code = "K2" -> "51ab"
      [] OTHER -> "e07d"

\* verifyHash(code, hash)
verifyHash(code, hash) == hashCode(code) = hash

CodeRows == {1, 2}
NoCodeRow == 0

\* generateBackupCodes: a row per code, holding its hash, used = false
generateBackupCodes ==
    [r \in CodeRows |-> [codeHash |-> hashCode(IF r = 1 THEN "K1" ELSE "K2"), used |-> FALSE]]

TfaIdle ==
    /\ backupCodes = generateBackupCodes
    /\ verifyPc = [v \in Verifiers |-> "idle"]
    /\ verifyRow = [v \in Verifiers |-> NoCodeRow]
    /\ verifyResult = [v \in Verifiers |-> "none"]
    /\ accepted = [r \in CodeRows |-> 0]
    /\ verifiesStarted = 0

\* the first row of findMany({userId, used: false}) whose hash matches
matchingRow(code) ==
    LET unused == {r \in CodeRows : ~backupCodes[r].used /\ verifyHash(code, backupCodes[r].codeHash)}
    IN  IF unused = {} THEN NoCodeRow ELSE CHOOSE r \in unused : \A s \in unused : r <= s

\* verifyBackupCode up to its first update: findMany, then the loop to the
\* first matching row; without a match the call returns at once
verifyBackupCodeFind(v, code) ==
    /\ verifyPc[v] = "idle"
    /\ verifiesStarted < MaxVerifies
    /\ verifiesStarted' = verifiesStarted + 1
    /\ LET row == matchingRow(code)
       IN  /\ verifyRow' = [verifyRow EXCEPT ![v] = row]
           /\ verifyPc' = [verifyPc EXCEPT ![v] = IF row = NoCodeRow THEN "done" ELSE "found"]
           /\ verifyResult' = [verifyResult EXCEPT ![v] = IF row = NoCodeRow THEN "invalid" ELSE "none"]
    /\ UNCHANGED <<backupCodes, accepted>>
    /\ UNCHANGED notTfa

\* prisma.twoFactorBackupCode.update({where: {id}}, {used: true})
verifyBackupCodeUpdate(v) ==
    /\ verifyPc[v] = "found"
    /\ backupCodes' = [backupCodes EXCEPT ![verifyRow[v]].used = TRUE]
    /\ verifyPc' = [verifyPc EXCEPT ![v] = "updated"]
    /\ UNCHANGED <<verifyRow, verifyResult, accepted, verifiesStarted>>
    /\ UNCHANGED notTfa

\* prisma.auditLog.create and the return: {success: true}, or the create's
\* error rethrown by the catch
verifyBackupCodeAudit(v, ok) ==
    /\ verifyPc[v] = "updated"
    /\ verifyPc' = [verifyPc EXCEPT ![v] = "done"]
    /\ verifyResult' = [verifyResult EXCEPT ![v] = IF ok THEN "success" ELSE "throw"]
    /\ accepted' = [accepted EXCEPT ![verifyRow[v]] = IF ok THEN @ + 1 ELSE @]
    /\ UNCHANGED <<backupCodes, verifyRow, verifiesStarted>>
    /\ UNCHANGED notTfa

\* the caller has the result; the login may verify again
verifyBackupCodeReturn(v) ==
    /\ verifyPc[v] = "done"
    /\ verifyPc' = [verifyPc EXCEPT ![v] = "idle"]
    /\ verifyRow' = [verifyRow EXCEPT ![v] = NoCodeRow]
    /\ verifyResult' = [verifyResult EXCEPT ![v] = "none"]
    /\ UNCHANGED <<backupCodes, accepted, verifiesStarted>>
    /\ UNCHANGED notTfa

(***************************************************************************)
(* The browser's API client: localStorage's psn_welfare_token, makeRequest *)
(* with handleResponse, and the interceptor window.makeRequest.            *)
(***************************************************************************)
MaxRequests == 3

\* the requests that can be in flight together
Requests == {"q1", "q2"}

Tokens == {"t1", "t2"}

\* localStorage.getItem('psn_welfare_token') is null
NoToken == "none"

\* the HTTP status of the server's answer
Statuses == {200, 401, 500}

NoRequest == [pc |-> "idle", sent |-> NoToken, status |-> 0, stored |-> NoToken,
              busy |-> FALSE, refresh |-> NoToken, retries |-> 0, outcome |-> "none"]

ApiIdle ==
    /\ token = NoToken
    /\ isRefreshing = FALSE
    /\ requests = [q \in Requests |-> NoRequest]
    /\ requestsMade = 0

\* handleResponse's effect on the stored token: a 401 removes it
handleResponse(status, stored) == IF status = 401 THEN NoToken ELSE stored

\* ApiService.refreshToken(): raises without a stored token, else sends
\* POST auth/refresh with the stored token
refreshToken(stored) == IF stored = NoToken THEN "throw" ELSE "sent"

\* makeRequest up to its await of fetch: the Authorization header carries
\* the token stored at that moment
makeRequestSend(q) ==
    /\ requests[q].pc = "idle"
    /\ requestsMade < MaxRequests
    /\ requestsMade' = requestsMade + 1
    /\ requests' = [requests EXCEPT ![q] = [NoRequest EXCEPT !.pc = "sent", !.sent = token]]
    /\ UNCHANGED <<token, isRefreshing>>
    /\ UNCHANGED notApi

\* the answer arrives: handleResponse, makeRequest's catch and the
\* interceptor's catch up to the call of ApiService.refreshToken, which run
\* without leaving the event-loop task
makeRequestResponse(q, status) ==
    /\ requests[q].pc = "sent"
    /\ LET left == handleResponse(status, token)
           intercepted == status = 401 /\ ~isRefreshing
           refresh == IF intercepted THEN refreshToken(left) ELSE "none"
       IN  /\ token' = left
           /\ isRefreshing' = IF intercepted THEN refresh = "sent" ELSE isRefreshing
           /\ requests' = [requests EXCEPT ![q] =
                  [@ EXCEPT !.pc = IF refresh = "sent" THEN "refreshing" ELSE "done",
                            !.status = status,
                            !.stored = token,
                            !.busy = isRefreshing,
                            !.refresh = IF refresh = "sent" THEN left ELSE NoToken,
                            !.outcome = CASE status = 200 -> "resolved"
                                          [] status = 500 -> "Server error"
                                          [] refresh = "sent" -> "none"
                                          [] refresh = "throw" -> "No token to refresh"
                                          [] OTHER -> "Session expired"]]
    /\ UNCHANGED requestsMade
    /\ UNCHANGED notApi

\* the refresh request settles: with a new token the original request is
\* sent again, without one the caller gets the refresh's error.  No state
\* holds a request at "refreshing" (refreshToken raises first), so this step
\* is not a disjunct of NextApi.
refreshTokenSettled(q, newToken) ==
    /\ requests[q].pc = "refreshing"
    /\ token' = IF newToken # NoToken THEN newToken ELSE token
    /\ isRefreshing' = FALSE
    /\ requests' = [requests EXCEPT ![q] =
           IF newToken # NoToken
           THEN [@ EXCEPT !.pc = "sent", !.sent = newToken, !.retries = @ + 1]
           ELSE [@ EXCEPT !.pc = "done", !.outcome = "refresh failed"]]
    /\ UNCHANGED requestsMade
    /\ UNCHANGED notApi

\* the caller has the outcome
makeRequestReturn(q) ==
    /\ requests[q].pc = "done"
    /\ requests' = [requests EXCEPT ![q] = NoRequest]
    /\ UNCHANGED <<token, isRefreshing, requestsMade>>
    /\ UNCHANGED notApi

(***************************************************************************)
(* The browser's BackupManager (BackupSystem): this.isProcessing and the   *)
(* calls of createBackup and restoreBackup from the buttons and from the   *)
(* auto-backup timer.                                                      *)
(***************************************************************************)
MaxManagerCalls == 4

\* the callers: the "Backup now" button, the setInterval callback of
\* setupAutoBackup, a restore button
CreateCallers == {"manual", "auto"}
ManagerCallers == CreateCallers \cup {"restore"}

\* a call between setting this.isProcessing and its finally block
InProgress == {"working", "logging", "failing"}

NoManagerCall == [pc |-> "idle", busyAtCall |-> FALSE, worked |-> FALSE]

ManagerIdle ==
    /\ isProcessing = FALSE
    /\ managerOps = [o \in ManagerCallers |-> NoManagerCall]
    /\ managerCalls = 0

\* createBackup as it would be without the check of this.isProcessing
BackupManagerCreateBackupUnguarded(o) ==
    /\ managerOps[o].pc = "idle"
    /\ managerCalls < MaxManagerCalls
    /\ managerCalls' = managerCalls + 1
    /\ isProcessing' = TRUE
    /\ managerOps' = [managerOps EXCEPT ![o] =
                         [pc |-> "working", busyAtCall |-> isProcessing, worked |-> TRUE]]
    /\ UNCHANGED notManager

\* BackupManager.createBackup up to its first await: the check and the
\* setting of this.isProcessing, then the request (or the mock) is under way
BackupManagerCreateBackup(o) ==
    /\ managerOps[o].pc = "idle"
    /\ managerCalls < MaxManagerCalls
    /\ managerCalls' = managerCalls + 1
    /\ IF isProcessing
       THEN /\ managerOps' = [managerOps EXCEPT ![o] =
                                 [pc |-> "refused", busyAtCall |-> TRUE, worked |-> FALSE]]
            /\ UNCHANGED isProcessing
       ELSE /\ isProcessing' = TRUE
            /\ managerOps' = [managerOps EXCEPT ![o] =
                                 [pc |-> "working", busyAtCall |-> FALSE, worked |-> TRUE]]
    /\ UNCHANGED notManager

\* BackupManager.restoreBackup up to its first await: confirm(), the check
\* and the setting of this.isProcessing, the look-up of the backup (a
\* missing or incomplete one raises into the catch, which awaits the log)
BackupManagerRestoreBackup(confirmed, restorable) ==
    /\ managerOps["restore"].pc = "idle"
    /\ managerCalls < MaxManagerCalls
    /\ managerCalls' = managerCalls + 1
    /\ IF ~confirmed \/ isProcessing
       THEN /\ managerOps' = [managerOps EXCEPT !["restore"] =
                                 [pc |-> "refused", busyAtCall |-> isProcessing, worked |-> FALSE]]
            /\ UNCHANGED isProcessing
       ELSE /\ isProcessing' = TRUE
            /\ managerOps' = [managerOps EXCEPT !["restore"] =
                                 [pc |-> IF restorable THEN "working" ELSE "failing",
                                  busyAtCall |-> FALSE, worked |-> TRUE]]
    /\ UNCHANGED notManager

\* the request (or the mock) settles: a result with success, where the call
\* goes on to await logBackupAction; a result without, where it returns; a
\* rejection, where the catch awaits logBackupAction
operationSettles(o, outcome) ==
    /\ managerOps[o].pc = "working"
    /\ managerOps' = [managerOps EXCEPT ![o].pc =
                         CASE outcome = "success" -> "logging"
                           [] outcome = "unsuccessful" -> "returned"
                           [] OTHER -> "failing"]
    /\ isProcessing' = IF outcome = "unsuccessful" THEN FALSE ELSE isProcessing
    /\ UNCHANGED managerCalls
    /\ UNCHANGED notManager

\* logBackupAction resolves (it swallows its errors); the call returns or
\* rethrows through its finally block
logBackupAction(o) ==
    /\ managerOps[o].pc \in {"logging", "failing"}
    /\ managerOps' = [managerOps EXCEPT ![o].pc = "returned"]
    /\ isProcessing' = FALSE
    /\ UNCHANGED managerCalls
    /\ UNCHANGED notManager

\* the caller is through with the call
operationReturned(o) ==
    /\ managerOps[o].pc \in {"returned", "refused"}
    /\ managerOps' = [managerOps EXCEPT ![o] = NoManagerCall]
    /\ UNCHANGED <<isProcessing, managerCalls>>
    /\ UNCHANGED notManager

(***************************************************************************)
(* BulkActionsManager: updateMemberStatusBulk on the selected members, in  *)
(* a page that has ApiService loaded, and the progress modal's cancel      *)
(* button.                                                                 *)
(***************************************************************************)
MaxSelected == 3
MaxStatusRuns == 2

StatusIdle ==
    /\ statusProcessing = FALSE
    /\ statusPc = "idle"
    /\ statusIdx = 0
    /\ statusTotal = 0
    /\ updatesIssued = 0
    /\ cancelled = FALSE
    /\ issuedAfterCancel = 0
    /\ statusRuns = 0

\* updateMemberStatusBulk up to its first await: startProgress (which sets
\* this.isProcessing), showProgressModal (which enables the cancel button),
\* and ApiService.updateMember for updates[0]
updateMemberStatusBulk(selected) ==
    /\ statusPc = "idle"
    /\ statusRuns < MaxStatusRuns
    /\ statusRuns' = statusRuns + 1
    /\ statusProcessing' = TRUE
    /\ statusTotal' = selected
    /\ statusIdx' = 0
    /\ updatesIssued' = 1
    /\ statusPc' = "updating"
    /\ UNCHANGED <<cancelled, issuedAfterCancel>>
    /\ UNCHANGED notStatus

\* ApiService.updateMember settles, either way: the count, updateProgress,
\* then the 100 ms pause
updateMemberSettles ==
    /\ statusPc = "updating"
    /\ statusPc' = "pausing"
    /\ UNCHANGED <<statusProcessing, statusIdx, statusTotal, updatesIssued, cancelled,
                   issuedAfterCancel, statusRuns>>
    /\ UNCHANGED notStatus

\* the pause is over: i++, and the loop's test i < updates.length, which is
\* all the loop tests; the next update is requested, or the loop is left
\* for logBulkAction
pauseElapses ==
    /\ statusPc = "pausing"
    /\ statusIdx' = statusIdx + 1
    /\ IF statusIdx + 1 < statusTotal
       THEN /\ statusPc' = "updating"
            /\ updatesIssued' = updatesIssued + 1
            /\ issuedAfterCancel' = IF cancelled THEN issuedAfterCancel + 1 ELSE issuedAfterCancel
       ELSE /\ statusPc' = "logging"
            /\ UNCHANGED <<updatesIssued, issuedAfterCancel>>
    /\ UNCHANGED <<statusProcessing, statusTotal, cancelled, statusRuns>>
    /\ UNCHANGED notStatus

\* logBulkAction settles: the notification and completeProgress
completeProgress ==
    /\ statusPc = "logging"
    /\ statusPc' = "done"
    /\ statusProcessing' = FALSE
    /\ UNCHANGED <<statusIdx, statusTotal, updatesIssued, cancelled, issuedAfterCancel, statusRuns>>
    /\ UNCHANGED notStatus

\* cancelBulkAction, from the cancel button while it is shown and enabled
cancelBulkAction ==
    /\ statusPc \in {"updating", "pausing", "logging"}
    /\ ~cancelled
    /\ statusProcessing' = FALSE
    /\ cancelled' = TRUE
    /\ UNCHANGED <<statusPc, statusIdx, statusTotal, updatesIssued, issuedAfterCancel, statusRuns>>
    /\ UNCHANGED notStatus

\* the progress modal is closed; the next bulk action starts afresh
closeProgressModal ==
    /\ statusPc = "done"
    /\ statusPc' = "idle"
    /\ cancelled' = FALSE
    /\ statusIdx' = 0
    /\ statusTotal' = 0
    /\ updatesIssued' = 0
    /\ UNCHANGED <<statusProcessing, issuedAfterCancel, statusRuns>>
    /\ UNCHANGED notStatus

(***************************************************************************)
(* The browser's WebSocketClient (wsClient): this.socket by its                  *)
(* readyState, the reconnect counter and the pending reconnect timer.      *)
(***************************************************************************)
\* this.maxReconnectAttempts
maxReconnectAttempts == 5

\* this.socket is null
NoClientSocket == "none"

ClientIdle ==
    /\ clientToken = FALSE
    /\ clientSocket = NoClientSocket
    /\ isConnected = FALSE
    /\ reconnectAttempts = 0
    /\ reconnectTimer = FALSE
    /\ userDisconnected = FALSE
    /\ reconnected = FALSE

\* connect(): without a stored token nothing happens, with one a new
\* WebSocket is created and stored
connect(current) == IF clientToken THEN "CONNECTING" ELSE current

\* connect() called by the page (initWebSocket), while no socket is live and
\* no reconnect is pending
connectCalled ==
    /\ clientSocket \in {NoClientSocket, "CLOSED"}
    /\ ~reconnectTimer
    /\ clientSocket' = connect(clientSocket)
    /\ userDisconnected' = FALSE
    /\ UNCHANGED <<clientToken, isConnected, reconnectAttempts, reconnectTimer, reconnected>>
    /\ UNCHANGED notClient

\* socket.onopen
onopen ==
    /\ clientSocket = "CONNECTING"
    /\ clientSocket' = "OPEN"
    /\ isConnected' = TRUE
    /\ reconnectAttempts' = 0
    /\ UNCHANGED <<clientToken, reconnectTimer, userDisconnected, reconnected>>
    /\ UNCHANGED notClient

\* the connection fails or is lost; the close event is still to come
connectionLost ==
    /\ clientSocket \in {"CONNECTING", "OPEN"}
    /\ clientSocket' = "CLOSING"
    /\ UNCHANGED <<clientToken, isConnected, reconnectAttempts, reconnectTimer,
                   userDisconnected, reconnected>>
    /\ UNCHANGED notClient

\* attemptReconnect(): up to maxReconnectAttempts a timer is set that calls
\* connect()
attemptReconnect(made) == made < maxReconnectAttempts

\* socket.onclose: isConnected cleared, then attemptReconnect(), whatever
\* closed the socket
onclose ==
    /\ clientSocket = "CLOSING"
    /\ clientSocket' = "CLOSED"
    /\ isConnected' = FALSE
    /\ IF attemptReconnect(reconnectAttempts)
       THEN /\ reconnectAttempts' = reconnectAttempts + 1
            /\ reconnectTimer' = TRUE
       ELSE UNCHANGED <<reconnectAttempts, reconnectTimer>>
    /\ UNCHANGED <<clientToken, userDisconnected, reconnected>>
    /\ UNCHANGED notClient

\* the timer set by attemptReconnect fires: connect()
reconnectTimerFires ==
    /\ reconnectTimer
    /\ reconnectTimer' = FALSE
    /\ clientSocket' = connect(clientSocket)
    /\ reconnected' = (reconnected \/ (userDisconnected /\ clientToken))
    /\ UNCHANGED <<clientToken, isConnected, reconnectAttempts, userDisconnected>>
    /\ UNCHANGED notClient

\* the stored token is removed (logout, or a request answered with 401)
tokenRemoved ==
    /\ clientToken
    /\ clientToken' = FALSE
    /\ UNCHANGED <<clientSocket, isConnected, reconnectAttempts, reconnectTimer,
                   userDisconnected, reconnected>>
    /\ UNCHANGED notClient

\* disconnect(): socket.close(1000, ...), stopHeartbeat, isConnected cleared
disconnect ==
    /\ ~userDisconnected
    /\ clientSocket' = IF clientSocket \in {"CONNECTING", "OPEN"} THEN "CLOSING" ELSE clientSocket
    /\ isConnected' = FALSE
    /\ userDisconnected' = TRUE
    /\ UNCHANGED <<clientToken, reconnectAttempts, reconnectTimer, reconnected>>
    /\ UNCHANGED notClient

\* the subsystems of the browser and of the two-factor service at rest
LateIdle == TfaIdle /\ ApiIdle /\ ManagerIdle /\ StatusIdle /\ ClientIdle

\* the other subsystems at rest
ExtIdle == SendIdle /\ KinIdle /\ WsIdle /\ BootIdle /\ DatesIdle /\ ClockIdle /\ BackupIdle /\ LateIdle

\* a batch run starts on an instance: the evaluator's read pass
startRun(inst) ==
    /\ batchPc[inst] = "idle"
    /\ runsStarted < MaxRuns
    /\ runsStarted' = runsStarted + 1
    /\ batchPc' = [batchPc EXCEPT ![inst] = "running"]
    /\ batchQueue' = [batchQueue EXCEPT ![inst] = duePairs(1)]
    /\ overlapped' = (overlapped \/ \E other \in Instances : batchPc[other] = "running")
    /\ UNCHANGED <<reminderEnabled, reminderLog, attempts, delivered, runsFinished>>
    /\ UNCHANGED notRem

\* await sendReminderEmail(reminderData) for pair p: the message goes out or
\* not, and the result is returned.  Neither sendReminderEmail nor sendEmail
\* writes a ReminderLog entry.
sendReminderEmailCall(p) ==
    /\ \E sendMailOk \in BOOLEAN :
          LET result == sendReminderEmail(p, sendMailOk)
          IN  /\ attempts' = [attempts EXCEPT ![p] = @ + 1]
              /\ delivered' = [delivered EXCEPT ![p] = @ + (IF result.success THEN 1 ELSE 0)]
    /\ reminderLog' = reminderLog

\* a caller dispatches the reminder of pair p
dispatchPair(p) ==
    /\ attempts[p] < MaxAttempts
    /\ sendReminderEmailCall(p)
    /\ UNCHANGED <<reminderEnabled, batchPc, batchQueue, runsStarted, runsFinished, overlapped>>
    /\ UNCHANGED notRem

\* the run dispatches its next due pair
dispatchReminder(inst) ==
    /\ batchPc[inst] = "running"
    /\ batchQueue[inst] # <<>>
    /\ sendReminderEmailCall(Head(batchQueue[inst]))
    /\ batchQueue' = [batchQueue EXCEPT ![inst] = Tail(@)]
    /\ UNCHANGED <<reminderEnabled, batchPc, runsStarted, runsFinished, overlapped>>
    /\ UNCHANGED notRem

\* the run has dispatched every due pair
finishRun(inst) ==
    /\ batchPc[inst] = "running"
    /\ batchQueue[inst] = <<>>
    /\ batchPc' = [batchPc EXCEPT ![inst] = "idle"]
    /\ runsFinished' = runsFinished + 1
    /\ UNCHANGED <<reminderEnabled, reminderLog, batchQueue, attempts, delivered, runsStarted,
                   overlapped>>
    /\ UNCHANGED notRem

(***************************************************************************)
(* SpecCidr: the CIDR functions applied once to inputs from bounded sets.  *)
(***************************************************************************)
NoMask == Num([i \in Bit |-> 0])

CidrIdle ==
    /\ cidrIp = Plain(A_192_168_1_5)
    /\ cidrRange = Plain(A_192_168_1_5)
    /\ cidrMask = NoMask
    /\ cidrResult = "none"
    /\ allowedResult = "none"

InitCidr ==
    /\ cidrIp \in {Plain(a) : a \in CidrAddrs}
    /\ cidrRange \in CidrRanges
    /\ cidrMask = NoMask
    /\ cidrResult = "none"
    /\ allowedResult = "none"
    \* the allow-list loaded from whatever rows the table holds
    /\ whitelist \in SUBSET {EntryOrder[i] : i \in 1..Len(EntryOrder)}
    /\ adminIPs = {}
    /\ lastLoaded = <<whitelist, adminIPs>>
    /\ db = [e \in Entries |-> IF e \in whitelist THEN Row(TRUE, FALSE) ELSE NoRow]
    /\ timerPc = "idle"
    /\ timerSnap = QueryFailed
    /\ opPc = "idle"
    /\ opCall = NoCall
    /\ opSnap = QueryFailed
    /\ opResult = "none"
    /\ lastReq = NoReq
    /\ opAudited = FALSE
    /\ MailIdle
    /\ ExtIdle

\* isIPInRange(cidrIp, cidrRange), and the mask it is computed with
CheckRange ==
    /\ cidrResult = "none"
    /\ cidrResult' = isIPInRange(cidrIp, cidrRange)
    /\ cidrMask' = IF cidrRange.prefix # NoPrefix THEN cidrToMask(cidrRange.prefix) ELSE cidrMask
    /\ UNCHANGED <<cidrIp, cidrRange, allowedResult>>
    /\ UNCHANGED notCidr

\* isIPAllowed(cidrIp) on the loaded allow-list
CheckAllowed ==
    /\ allowedResult = "none"
    /\ allowedResult' = isIPAllowed(cidrIp)
    /\ UNCHANGED <<cidrIp, cidrRange, cidrMask, cidrResult>>
    /\ UNCHANGED notCidr

NextCidr == CheckRange \/ CheckAllowed

SpecCidr == InitCidr /\ [][NextCidr]_vars

(***************************************************************************)
(* SpecGate (Spec): the allow-list cache, its reloads, the admin calls and *)
(* the gate's decisions.                                                   *)
(***************************************************************************)
Init == InitGate /\ CidrIdle /\ MailIdle /\ ExtIdle

Spec == Init /\ [][Next]_vars

(***************************************************************************)
(* SpecBulk: sendBulkEmails calls on an EmailService left by initialize(). *)
(***************************************************************************)
InitBulk ==
    /\ transporter \in Transporters
    /\ templates \in TemplateSets
    /\ BulkIdle
    /\ RemIdle
    /\ InitGate
    /\ CidrIdle
    /\ ExtIdle

NextBulk ==
    \/ \E recipients \in RecipientLists, templateName \in TemplateNames :
          sendBulkEmailsCall(recipients, templateName)
    \/ sendBulkEmailsStep
    \/ sendBulkEmailsReturn

SpecBulk == InitBulk /\ [][NextBulk]_vars

(***************************************************************************)
(* SpecReminder: batch runs on the pm2 instances.                          *)
(***************************************************************************)
InitReminder ==
    /\ transporter \in Transporters
    /\ templates \in TemplateSets
    /\ BulkIdle
    /\ reminderEnabled \in [Dates -> BOOLEAN]
    /\ reminderLog = <<>>
    /\ batchPc = [i \in Instances |-> "idle"]
    /\ batchQueue = [i \in Instances |-> <<>>]
    /\ attempts = [p \in Pairs |-> 0]
    /\ delivered = [p \in Pairs |-> 0]
    /\ runsStarted = 0
    /\ runsFinished = 0
    /\ overlapped = FALSE
    /\ InitGate
    /\ CidrIdle
    /\ ExtIdle

NextReminder ==
    \/ \E inst \in Instances : startRun(inst)
    \/ \E inst \in Instances : dispatchReminder(inst)
    \/ \E inst \in Instances : finishRun(inst)

SpecReminder == InitReminder /\ [][NextReminder]_vars

(***************************************************************************)
(* SpecDispatch: callers of EmailService.sendReminderEmail.                *)
(***************************************************************************)
NextDispatch == \E p \in Pairs : dispatchPair(p)

SpecDispatch == InitReminder /\ [][NextDispatch]_vars

(***************************************************************************)
(* SpecSend: callers of EmailService.sendEmail.                            *)
(***************************************************************************)
\* sendEmail calls in one behaviour
MaxSends == 3

\* await sendEmail(to, subject, templateName, data): the whole body is inside
\* try/catch and the catch block returns, so the promise always resolves
\* with a result object; the caller never sees a raise
sendEmailCall(to, templateName) ==
    /\ Len(sendCalls) < MaxSends
    /\ \E sendMailOk \in BOOLEAN :
          sendCalls' = Append(sendCalls,
                              [to |-> to, templateName |-> templateName, raised |-> FALSE,
                               result |-> sendEmail(to, templateName, sendMailOk)])
    /\ UNCHANGED notSend

InitSend ==
    /\ transporter \in Transporters
    /\ templates \in TemplateSets
    /\ BulkIdle
    /\ RemIdle
    /\ InitGate
    /\ CidrIdle
    /\ ExtIdle

NextSend == \E to \in Emails, templateName \in TemplateNames : sendEmailCall(to, templateName)

SpecSend == InitSend /\ [][NextSend]_vars

(***************************************************************************)
(* SpecKin: the next-of-kin handlers of the dashboard and the resolver.    *)
(***************************************************************************)
InitKin ==
    /\ apiService \in {"undefined", "defined"}
    /\ nextOfKin = loadNextOfKin(apiService)
    /\ isEditing = FALSE
    /\ currentEditId = NoId
    /\ kinNotice = "none"
    /\ resolved = NoResolution
    /\ SendIdle
    /\ WsIdle
    /\ BootIdle
    /\ DatesIdle
    /\ ClockIdle
    /\ BackupIdle
    /\ LateIdle
    /\ InitGate
    /\ CidrIdle
    /\ MailIdle

NextKin ==
    \/ openAddKinModal
    \/ apiServiceLoaded
    \/ \E kinId \in KinIds : editKin(kinId)
    \/ \E valid \in BOOLEAN, isPrimary \in BOOLEAN, email \in KinEmails, newId \in GeneratedIds :
          /\ Len(nextOfKin) < MaxKin \/ (isEditing /\ currentEditId # NoId)
          /\ saveNewKin(valid, isPrimary, email, newId)
    \/ \E kinId \in KinIds, confirmed \in BOOLEAN : deleteKin(kinId, confirmed)
    \/ \E recipients \in RecipientSets : resolveRecipients(recipients)

SpecKin == InitKin /\ [][NextKin]_vars

(***************************************************************************)
(* SpecWs: connections, room membership and reminder broadcasts.           *)
(***************************************************************************)
InitWs == InitGate /\ CidrIdle /\ MailIdle /\ ExtIdle

NextWs ==
    \/ \E u \in Users : handleConnection(u)
    \/ \E u \in Users : subscribeToRooms(u)
    \/ \E u \in Users, type \in {"SUBSCRIBE", "UNSUBSCRIBE"} : handleMessage(u, type)
    \/ \E u \in Users, socket \in Sockets : socketCloses(u, socket)
    \/ \E u \in Users, socket \in Sockets : handleDisconnection(u, socket)
    \/ \E memberId \in Users \cup {NoUser} : broadcastReminderSent(memberId)

SpecWs == InitWs /\ [][NextWs]_vars

(***************************************************************************)
(* SpecBoot: testConnection on the pm2 instances, on a database that holds *)
(* the bootstrap account already or not.                                   *)
(***************************************************************************)
InitBoot ==
    /\ adminEnv \in BOOLEAN
    /\ adminRows \in {0, 1}
    /\ bootPc = [i \in Instances |-> "idle"]
    /\ bootFound = [i \in Instances |-> FALSE]
    /\ bootResult = [i \in Instances |-> "none"]
    /\ bootFailedAt = [i \in Instances |-> "none"]
    /\ bootsStarted = 0
    /\ SendIdle
    /\ KinIdle
    /\ WsIdle
    /\ DatesIdle
    /\ ClockIdle
    /\ BackupIdle
    /\ LateIdle
    /\ InitGate
    /\ CidrIdle
    /\ MailIdle

NextBoot ==
    \/ \E inst \in Instances : testConnection(inst)
    \/ \E inst \in Instances : ensureAdminUserFind(inst)
    \/ \E inst \in Instances : ensureAdminUserHash(inst)
    \/ \E inst \in Instances : ensureAdminUserCreate(inst)
    \/ \E inst \in Instances : testConnectionReturn(inst)

SpecBoot == InitBoot /\ [][NextBoot]_vars

(***************************************************************************)
(* SpecDates: getDaysUntil and updateStats on one stored date.             *)
(***************************************************************************)
StoredDays == {Date(2024, 12, 25), Date(2025, 12, 25), Date(2024, 5, 15), Date(2025, 1, 1),
               Date(2025, 5, 15), Date(2026, 1, 1)}

Todays == {Date(2024, 12, 24), Date(2024, 12, 25), Date(2024, 12, 26), Date(2024, 12, 31),
           Date(2025, 1, 1), Date(2025, 5, 14), Date(2025, 12, 30)}

InitDates ==
    /\ specialDate \in {Stored(date, isAnnual) : date \in StoredDays, isAnnual \in BOOLEAN}
    /\ today \in Todays
    /\ tzWest \in BOOLEAN
    /\ daysUntil = NoDays
    /\ upcoming = NoDays
    /\ SendIdle
    /\ KinIdle
    /\ WsIdle
    /\ BootIdle
    /\ ClockIdle
    /\ BackupIdle
    /\ LateIdle
    /\ InitGate
    /\ CidrIdle
    /\ MailIdle

NextDates == getDaysUntilCall \/ updateStats

SpecDates == InitDates /\ [][NextDates]_vars

(***************************************************************************)
(* SpecWindow: batch runs at a "now" and on stored dates drawn from sets.  *)
(***************************************************************************)
EvalNows == {Instant(Date(2025, 5, 13), 12), Instant(Date(2025, 5, 14), 0),
             Instant(Date(2025, 5, 14), 12), Instant(Date(2025, 5, 15), 0),
             Instant(Date(2025, 5, 15), 12), Instant(Date(2025, 12, 31), 0)}

StoredBirthdays == {Stored(Date(2024, 5, 15), TRUE), Stored(Date(2025, 5, 15), FALSE),
                    Stored(Date(2024, 1, 1), TRUE)}

InitWindow ==
    /\ evalNow \in EvalNows
    /\ storedDates \in {[d \in Dates |-> IF d = "birthday" THEN b ELSE Stored(Date(2025, 5, 14), FALSE)] :
                            b \in StoredBirthdays}
    /\ transporter = "smtp"
    /\ templates = {"welcome", "reminder"}
    /\ BulkIdle
    /\ reminderEnabled \in [Dates -> BOOLEAN]
    /\ reminderLog = <<>>
    /\ batchPc = [i \in Instances |-> "idle"]
    /\ batchQueue = [i \in Instances |-> <<>>]
    /\ attempts = [p \in Pairs |-> 0]
    /\ delivered = [p \in Pairs |-> 0]
    /\ runsStarted = 0
    /\ runsFinished = 0
    /\ overlapped = FALSE
    /\ SendIdle
    /\ KinIdle
    /\ WsIdle
    /\ BootIdle
    /\ DatesIdle
    /\ BackupIdle
    /\ LateIdle
    /\ InitGate
    /\ CidrIdle

SpecWindow == InitWindow /\ [][NextReminder]_vars

(***************************************************************************)
(* SpecBackup: backups made and restored by the administrators.            *)
(***************************************************************************)
InitBackup == InitGate /\ CidrIdle /\ MailIdle /\ ExtIdle

NextBackup ==
    \/ createBackup
    \/ backupDatabase
    \/ createBackupRecord
    \/ createBackupFailed
    \/ \E backupId \in BackupIds, userId \in BackupUsers : restoreBackup(backupId, userId)
    \/ restoreDatabase
    \/ restoreUploads
    \/ restoreRecord
    \/ restoreCatch
    \/ restoreReturn

SpecBackup == InitBackup /\ [][NextBackup]_vars

(***************************************************************************)
(* Reference notions the claims are stated with.                           *)
(***************************************************************************)
\* bit i (0 the least significant) of the 32-bit value of dotted quad a
AddrBit(a, i) == (a[4 - (i \div 8)] \div Pow2(i % 8)) % 2

\* the mask of prefix length n: the top n bits set
PrefixMask(n) == [i \in Bit |-> IF i >= WordBits - n THEN 1 ELSE 0]

\* address ip lies inside entry e: equal to it, or equal to it in the top n bits
InsideRange(ip, e) ==
    IF e.prefix = NoPrefix THEN ip.ip = e.ip
    ELSE \A i \in Bit : i >= WordBits - e.prefix => AddrBit(ip.ip, i) = AddrBit(e.ip, i)

AsResult(b) == IF b THEN "true" ELSE "false"

(***************************************************************************)
(* Claims.                                                                 *)
(***************************************************************************)

\* the i-th send of the bulk call went out: the template exists, there is a
\* transport and sendMail accepted the message
BulkSendWentOut(i) ==
    bulkTemplate \in templates /\ transporter # "null" /\ bulkCalls[i].sendMailOk

\* C1: a failed send never aborts a bulk dispatch: sendEmail is called for
\* every recipient exactly once and in list order, the call returns normally,
\* and sent + failed = total with failed the number of failed sends.
C1_BulkAttemptsEveryRecipient ==
    /\ bulkPc # "thrown"
    /\ bulkPc \in {"loop", "returned"} =>
          /\ Len(bulkCalls) = bulkIdx - 1
          /\ \A i \in 1..Len(bulkCalls) : bulkCalls[i].to = bulkRecipients[i]
    /\ bulkPc = "returned" =>
          /\ Len(bulkCalls) = Len(bulkRecipients)
          /\ bulkReturn.total = Len(bulkRecipients)
          /\ bulkReturn.sent + bulkReturn.failed = bulkReturn.total
          /\ bulkReturn.failed = Cardinality({i \in 1..Len(bulkCalls) : ~BulkSendWentOut(i)})

\* C1 witness: a call has returned in which a send failed and a later
\* recipient's send went out.
C1_Witness ==
    /\ bulkPc = "returned"
    /\ \E i, j \in 1..Len(bulkResults) :
          i < j /\ ~bulkResults[i].success /\ bulkResults[j].success

\* number of ReminderLog entries for pair p
LogCount(p) ==
    Cardinality({i \in 1..Len(reminderLog) :
                    reminderLog[i].date = p.date
                    /\ reminderLog[i].recipientEmail = p.recipientEmail})

\* C2: after two batch runs in immediate succession for the same "now" there
\* is exactly one ReminderLog entry per due (date, recipient) pair, and the
\* second run sent nothing: each pair was dispatched once.
C2_TwoRunsOneLogEntryPerPair ==
    (runsFinished = 2 /\ ~overlapped)
        => \A p \in Pairs :
              reminderEnabled[p.date] => (LogCount(p) = 1 /\ attempts[p] = 1)

C4_EveryAttemptLogged ==
    [][attempts' # attempts
          => /\ Len(reminderLog') = Len(reminderLog) + 1
             /\ SubSeq(reminderLog', 1, Len(reminderLog)) = reminderLog]_vars

\* C5: a request to an admin-scoped path passes the gate only if its client
\* address is an entry of the admin allow-list; a match against the general
\* allow-list alone does not pass it.
C5_AdminPathNeedsAdminList ==
    [][(lastReq' # lastReq /\ startsWith(lastReq'.path, ApiAdmin) /\ lastReq'.outcome = "next")
          => lastReq'.ip \in adminIPs]_vars

\* C6: with CIDR entries in the general allow-list, isIPAllowed returns true
\* for every address inside a listed entry and false for an address inside
\* none, and never raises (192.168.1.5 is allowed by 192.168.1.0/24 and not
\* by 192.168.2.0/24).
C6_CidrAllowCheck ==
    allowedResult # "none"
        => allowedResult = AsResult(\E e \in whitelist : InsideRange(cidrIp, e))

\* C7: when addIP(ip) has returned success the cache set matching its admin
\* flag contains ip, and when removeIP(ip) has returned success neither cache
\* set contains ip, also while a timer-driven reload that began earlier
\* completes later.
C7_CacheReflectsAddRemove ==
    (opPc = "done" /\ opResult = "success")
        => /\ opCall.kind = "add" =>
                opCall.ip \in (IF opCall.isAdminIP THEN adminIPs ELSE whitelist)
           /\ opCall.kind = "remove" => opCall.ip \notin (whitelist \cup adminIPs)

\* C8: every gate decision reads the two sets exactly as the last completed
\* reload left them, never an emptied or half-filled set.
C8_DecisionSeesCompleteSets ==
    [][lastReq' # lastReq => <<whitelist, adminIPs>> = lastLoaded]_vars

\* C8 witness: a decision was taken on a non-empty cache while a reload was
\* past its query and about to replace the cache by other contents.
C8_Witness ==
    /\ lastReq.handled
    /\ lastReq.reloading

\* C9: every request the gate does not let through gets the access-denied
\* response (403) and a logged entry for the rejection.
C9_RejectionDeniedAndLogged ==
    (lastReq.handled /\ lastReq.outcome # "next")
        => (lastReq.outcome = "403" /\ lastReq.warned)

\* C10: the mask depends only on the prefix length and is right for every
\* length 0..32: /0 matches every address, /32 only the identical address,
\* /n compares exactly the top n bits.
C10_MaskByPrefixLength ==
    (cidrResult # "none" /\ cidrRange.prefix # NoPrefix)
        => /\ cidrMask.bits = PrefixMask(cidrRange.prefix)
           /\ cidrResult = AsResult(InsideRange(cidrIp, cidrRange))

\* C11: sendEmail called with a template name that is not registered raises
\* an error to its caller; it does not return a result.
C11_UnknownTemplateRaises ==
    \A i \in 1..Len(sendCalls) :
        sendCalls[i].templateName \notin templates => sendCalls[i].raised

\* C12: after any sequence of add, edit and delete next-of-kin operations at
\* most one of the member's NextOfKin records has the primary flag set.
C12_AtMostOnePrimaryKin ==
    Cardinality({i \in 1..Len(nextOfKin) : nextOfKin[i].isPrimary}) <= 1

\* C12 witness: the list holds several records and the primary one is a
\* record other than the one that was primary at the start, after a save.
C12_Witness ==
    /\ Len(nextOfKin) >= 2
    /\ kinNotice = "success"
    /\ \E i \in 1..Len(nextOfKin) : nextOfKin[i].isPrimary /\ nextOfKin[i].id # "1"
    /\ \E i \in 1..Len(nextOfKin) : nextOfKin[i].id = "1"

\* C18: recipient resolution never raises for missing data; for a member
\* with no NextOfKin and the recipient set {primary_kin} it returns the empty
\* list.
C18_ResolutionNeverRaises ==
    resolved.called
        => /\ ~resolved.raised
           /\ (resolved.kinCount = 0 /\ resolved.recipients = {"primary_kin"})
                  => resolved.list = <<>>

\* C18 witness: the resolver was asked for {primary_kin} of a member who has
\* no NextOfKin.
C18_Witness ==
    /\ resolved.called
    /\ resolved.kinCount = 0
    /\ resolved.recipients = {"primary_kin"}

\* C19: broadcasting a reminder-sent notification never raises into the
\* caller and never waits on a client, whatever the state of the connected
\* sockets: the call returns having queued the message on every open socket
\* of the room (and of the member) and skipped every other one.
C19_BroadcastNeverRaises ==
    [][broadcast' # broadcast
          => /\ ~broadcast'.raised
             /\ \A u \in broadcast'.delivered : clients[u] = "OPEN"
             /\ \A u \in broadcast'.skipped : clients[u] # "OPEN"
             /\ {room[i] : i \in 1..Len(room)} \subseteq broadcast'.delivered \cup broadcast'.skipped]_vars

\* C19 witness: a broadcast reached an open socket and passed over a room
\* member whose socket was closing, closed or gone.
C19_Witness ==
    /\ broadcast.called
    /\ broadcast.delivered # {}
    /\ \E i \in 1..Len(room) : room[i] \in broadcast.skipped

\* addIP / removeIP got as far as prisma.auditLog.create and the create was
\* rejected
AuditWriteFailed ==
    /\ opPc = "done"
    /\ opCall.kind = "add" \/ (opCall.kind = "remove" /\ opCall.existing)
    /\ ~opAudited

\* C14: a failure to write the audit-log entry never makes the audited
\* operation fail or be reported as failed to its caller.
C14_AuditFailureFailsOpen ==
    AuditWriteFailed => opResult = "success"

\* C13: however often the bootstrap runs, one run after the other or several
\* instances at once, every run that reaches the database succeeds and,
\* with the bootstrap account configured, exactly one such account exists
\* once a run has succeeded.
C13_BootstrapIdempotent ==
    /\ adminRows <= 1
    /\ \A inst \in Instances :
          bootPc[inst] = "done" =>
             /\ bootFailedAt[inst] # "connect" => bootResult[inst] = "true"
             /\ (adminEnv /\ bootResult[inst] = "true") => adminRows = 1

\* C15: a SpecialDate whose reminderEnabled flag is false is never part of
\* the Due-Date Evaluator's output, whatever its date and whatever "now" is.
C15_DisabledNeverDue ==
    \A inst \in Instances :
        \A i \in 1..Len(batchQueue[inst]) : reminderEnabled[batchQueue[inst][i].date]

\* C15 witness: a run's evaluator output holds an enabled date while a
\* disabled date lies inside the window.
C15_Witness ==
    /\ \E inst \in Instances : batchQueue[inst] # <<>>
    /\ \E d \in Dates : ~reminderEnabled[d] /\ inWindow(d)

\* the day getDaysUntil's result points at
ComputedOccurrence == DayNumber(today) + daysUntil

\* C16: for an annual date the computed next occurrence is never earlier
\* than "now": it is the stored month/day in the current year, or in the next
\* year if that day has passed (25 December around a year boundary resolves
\* to the nearest upcoming 25 December).
C16_AnnualNextOccurrence ==
    (daysUntil # NoDays /\ specialDate.isAnnual)
        => /\ daysUntil >= 0
           /\ ComputedOccurrence = DayNumber(nextOccurrence(specialDate, today))

\* the next occurrence of date d lies exactly on the lower or the upper bound
\* of the window
AtWindowBound(d) ==
    LET occ == hoursOf(Instant(nextOccurrence(storedDates[d], evalNow.date), 0))
    IN  occ = hoursOf(evalNow) \/ occ = hoursOf(evalNow) + WindowHours

\* C17: a date whose next occurrence lies exactly on a bound of the window is
\* due: after one run each of its pairs was attempted once, and a pair whose
\* send the provider accepted has exactly one ReminderLog entry (15 May,
\* annual, at 2025-05-14T00:00Z with a 24-hour window).
C17_BoundaryDateDueAndLogged ==
    (runsStarted = 1 /\ runsFinished = 1)
        => \A p \in Pairs :
              (AtWindowBound(p.date) /\ reminderEnabled[p.date])
                  => /\ attempts[p] = 1
                     /\ delivered[p] = 1 => LogCount(p) = 1

\* C20: when the database and file restoration steps of restoreBackup have
\* succeeded for a backup that createBackup produced, the call reports
\* success and the backup's record carries the restore time and the restorer.
C20_RestoreRecordsRestorer ==
    (restorePc = "done" /\ restoreCall.dbRestored /\ restoreCall.uploadsDone)
        => /\ restoreResult = "success"
           /\ backupRows[restoreCall.backupId].exists
           /\ backupRows[restoreCall.backupId].restored
           /\ backupRows[restoreCall.backupId].restoredById = restoreCall.userId

\* the users in the room 'admin:notifications'
roomMembers == {room[i] : i \in 1..Len(room)}

\* C21: every user id that is a member of a room has a registered
\* connection; a user whose socket has closed is in no room, also when the
\* close happens while the initial room subscription is still in progress.
C21_RoomMembersAreConnected ==
    \A u \in roomMembers : clients[u] # NoSocket

\* C22: when a user opens a second connection while an earlier one is still
\* registered, the later close of the earlier socket removes neither the
\* second connection's registration nor its room memberships.
C22_EarlierCloseKeepsLater ==
    [][\A u \in Users :
          (clients[u] = "OPEN" /\ others[u] = "CLOSED" /\ others'[u] # others[u])
             => /\ clients'[u] = "OPEN"
                /\ (u \in roomMembers => u \in roomMembers')]_vars

\* C24: a user who is not an administrator is never a member of a room whose
\* name starts with "admin:".
C24_AdminRoomsHoldAdminsOnly ==
    roomMembers \subseteq Admins

(***************************************************************************)
(* SpecTwoFactor: verifyBackupCode calls on the two codes of one user.     *)
(***************************************************************************)
InitTwoFactor == InitGate /\ CidrIdle /\ MailIdle /\ ExtIdle

(***************************************************************************)
(* SpecApi: requests of a browser that holds a token, or none.             *)
(***************************************************************************)
InitApi ==
    /\ token \in Tokens \cup {NoToken}
    /\ isRefreshing = FALSE
    /\ requests = [q \in Requests |-> NoRequest]
    /\ requestsMade = 0
    /\ TfaIdle /\ ManagerIdle /\ StatusIdle /\ ClientIdle
    /\ SendIdle /\ KinIdle /\ WsIdle /\ BootIdle /\ DatesIdle /\ ClockIdle /\ BackupIdle
    /\ InitGate /\ CidrIdle /\ MailIdle

NextApi ==
    \/ \E q \in Requests : makeRequestSend(q)
    \/ \E q \in Requests, status \in Statuses : makeRequestResponse(q, status)
    \/ \E q \in Requests : makeRequestReturn(q)

SpecApi == InitApi /\ [][NextApi]_vars

(***************************************************************************)
(* SpecManager: the buttons and the auto-backup timer call the browser's   *)
(* BackupManager in any order.                                             *)
(***************************************************************************)
InitManager == InitGate /\ CidrIdle /\ MailIdle /\ ExtIdle

NextManager ==
    \/ \E o \in CreateCallers : BackupManagerCreateBackup(o)
    \/ \E confirmed \in BOOLEAN, restorable \in BOOLEAN :
          BackupManagerRestoreBackup(confirmed, restorable)
    \/ \E o \in ManagerCallers, outcome \in {"success", "unsuccessful", "reject"} :
          operationSettles(o, outcome)
    \/ \E o \in ManagerCallers : logBackupAction(o)
    \/ \E o \in ManagerCallers : operationReturned(o)

SpecManager == InitManager /\ [][NextManager]_vars

(***************************************************************************)
(* SpecStatus: bulk status updates of one to MaxSelected members, with the *)
(* cancel button pressed at any moment the modal offers it.                *)
(***************************************************************************)
InitStatus == InitGate /\ CidrIdle /\ MailIdle /\ ExtIdle

NextStatus ==
    \/ \E selected \in 1..MaxSelected : updateMemberStatusBulk(selected)
    \/ updateMemberSettles
    \/ pauseElapses
    \/ completeProgress
    \/ cancelBulkAction
    \/ closeProgressModal

SpecStatus == InitStatus /\ [][NextStatus]_vars

(***************************************************************************)
(* SpecClient: a page with or without a stored token uses wsClient.        *)
(***************************************************************************)
InitClient ==
    /\ clientToken \in BOOLEAN
    /\ clientSocket = NoClientSocket
    /\ isConnected = FALSE
    /\ reconnectAttempts = 0
    /\ reconnectTimer = FALSE
    /\ userDisconnected = FALSE
    /\ reconnected = FALSE
    /\ TfaIdle /\ ApiIdle /\ ManagerIdle /\ StatusIdle
    /\ SendIdle /\ KinIdle /\ WsIdle /\ BootIdle /\ DatesIdle /\ ClockIdle /\ BackupIdle
    /\ InitGate /\ CidrIdle /\ MailIdle

NextClient ==
    \/ connectCalled
    \/ onopen
    \/ connectionLost
    \/ onclose
    \/ reconnectTimerFires
    \/ disconnect
    \/ tokenRemoved

SpecClient == InitClient /\ [][NextClient]_vars

NextTwoFactor ==
    \/ \E v \in Verifiers, code \in SubmittedCodes : verifyBackupCodeFind(v, code)
    \/ \E v \in Verifiers : verifyBackupCodeUpdate(v)
    \/ \E v \in Verifiers, ok \in BOOLEAN : verifyBackupCodeAudit(v, ok)
    \/ \E v \in Verifiers : verifyBackupCodeReturn(v)

SpecTwoFactor == InitTwoFactor /\ [][NextTwoFactor]_vars

\* C23: each two-factor backup code is accepted at most once, under any
\* interleaving of verifyBackupCode calls.
C23_BackupCodeAcceptedOnce ==
    \A r \in CodeRows : accepted[r] <= 1

\* C25: when a request is answered with HTTP 401 while a token is stored
\* and no refresh is in flight, the client sends a refresh request carrying
\* that token (and, if it succeeds, retries the request once with the new
\* token).
C25_UnauthorizedRefreshes ==
    \A q \in Requests :
        (requests[q].status = 401 /\ requests[q].stored # NoToken /\ ~requests[q].busy)
           => requests[q].refresh = requests[q].stored

\* C26: the browser BackupManager never has two operations (createBackup or
\* restoreBackup, from a button or from the auto-backup timer) in progress
\* together; a call made while one is in progress returns without starting
\* any work.
C26_OneManagerOperationAtATime ==
    /\ Cardinality({o \in ManagerCallers : managerOps[o].pc \in InProgress}) <= 1
    /\ isProcessing = (\E o \in ManagerCallers : managerOps[o].pc \in InProgress)
    /\ \A o \in ManagerCallers : managerOps[o].busyAtCall => ~managerOps[o].worked

\* C26 witness: the auto-backup timer fired while a restore was in progress
\* and its call was turned away.
C26_Witness ==
    /\ managerOps["restore"].pc \in InProgress
    /\ managerOps["auto"].pc = "refused"
    /\ managerOps["auto"].busyAtCall

\* C27: after cancelBulkAction is called during a bulk member-status
\* update, no further member update request is issued.
C27_NoUpdateAfterCancel ==
    issuedAfterCancel = 0

\* C28: after WebSocketClient.disconnect() no reconnection is attempted
\* until connect() is called explicitly.
C28_NoReconnectAfterDisconnect ==
    ~reconnected

\* C29: if the server call made by saveNewKin fails, the local next-of-kin
\* list is left exactly as it was before the call; the record that was
\* primary is still primary.
C29_FailedSaveLeavesList ==
    [][(apiService = "defined" /\ kinNotice' = "error") => nextOfKin' = nextOfKin]_vars

====
